---- MODULE Spec2Model ----
(***************************************************************************)
(* Model of the IAMcoder mission orchestrator (ExecutorService), the       *)
(* ContextBridge registry it drives, the Guardrail predicates, the         *)
(* FlexYALMParser, the TaskLogicHandler dispatcher, _resolve_placeholders  *)
(* and the task_apply_writes handler.                                      *)
(*                                                                         *)
(* Python strings whose content matters (goals, modes, paths, patterns)    *)
(* are sequences of one-character strings.  None and the empty string are  *)
(* both modelled by the empty sequence where the code only tests           *)
(* truthiness.                                                             *)
(***************************************************************************)
EXTENDS Integers, Sequences, FiniteSets, TLC

\* ------------------------------------------------------------------------
\* Bounds
\* ------------------------------------------------------------------------
MaxTasks == 2
MaxSegs == 3
MaxSources == 2
MaxCands == 2
MaxHints == 2
MaxOps == 2
MaxChanges == 2
MaxReparses == 2
MaxSlugLen == 4
MaxVars == 2

\* ------------------------------------------------------------------------
\* String helpers (str.lower, str.replace, the `in` operator)
\* ------------------------------------------------------------------------
Falsy == << >>

Truthy(x) == x # Falsy

LowerChar(c) ==
    CASE c = "D" -> "d"
      [] c = "E" -> "e"
      [] c = "I" -> "i"
      [] c = "L" -> "l"
      [] c = "M" -> "m"
      [] c = "N" -> "n"
      [] c = "O" -> "o"
      [] c = "R" -> "r"
      [] c = "T" -> "t"
      [] c = "V" -> "v"
      [] c = "W" -> "w"
      [] c = "Y" -> "y"
      [] OTHER -> c

StrLower(s) == [k \in 1..Len(s) |-> LowerChar(s[k])]

StrReplaceChar(s, old, new) == [k \in 1..Len(s) |-> IF s[k] = old THEN new ELSE s[k]]

StrContains(s, sub) ==
    \E k \in 0..(Len(s) - Len(sub)) : SubSeq(s, k + 1, k + Len(sub)) = sub

\* ------------------------------------------------------------------------
\* Guardrail (core/guardrail.py)
\* ------------------------------------------------------------------------
BackSlash == "\\"

RECURSIVE FnMatchFrom(_, _, _, _)
FnMatchFrom(name, pat, i, j) ==
    IF j > Len(pat) THEN i > Len(name)
    ELSE IF pat[j] = "*"
         THEN FnMatchFrom(name, pat, i, j + 1)
              \/ (i <= Len(name) /\ FnMatchFrom(name, pat, i + 1, j))
    ELSE IF pat[j] = "?"
         THEN i <= Len(name) /\ FnMatchFrom(name, pat, i + 1, j + 1)
    ELSE i <= Len(name) /\ name[i] = pat[j] /\ FnMatchFrom(name, pat, i + 1, j + 1)

fnmatch(name, pat) == FnMatchFrom(name, pat, 1, 1)

RECURSIVE SanctuaryLoop(_, _, _)
SanctuaryLoop(file_path_str, patterns, k) ==
    IF k > Len(patterns) THEN FALSE
    ELSE IF fnmatch(file_path_str, StrReplaceChar(patterns[k], BackSlash, "/"))
         THEN TRUE
    ELSE SanctuaryLoop(file_path_str, patterns, k + 1)

is_sanctuary_path_raw(file_path, patterns) ==
    SanctuaryLoop(file_path, patterns, 1)

is_sanctuary_path(file_path, patterns) ==
    SanctuaryLoop(StrReplaceChar(file_path, BackSlash, "/"), patterns, 1)

check_path(file_path, patterns) ==
    IF is_sanctuary_path(file_path, patterns) THEN "GuardrailError" ELSE "ok"

filter_allowed_paths(paths, patterns) ==
    SelectSeq(paths, LAMBDA p : ~is_sanctuary_path(p, patterns))

\* settings.sanctuary_paths defaults
PatDataHive == <<"d","a","t","a","/","h","i","v","e","_","b","o","x","e","s","/","*","*">>
PatEnv == <<".","e","n","v">>
PatPrivate == <<"p","r","i","v","a","t","e","/","*","*">>
PatGit == <<".","g","i","t","/","*","*">>

DefaultSanctuaryPaths == <<PatDataHive, PatEnv, PatPrivate, PatGit>>

\* the same list as a configuration file written with '\' separators
BackslashSanctuaryPaths ==
    [k \in 1..Len(DefaultSanctuaryPaths) |->
        StrReplaceChar(DefaultSanctuaryPaths[k], "/", BackSlash)]

SegPrivate == <<"p","r","i","v","a","t","e">>
SegGit == <<".","g","i","t">>
SegData == <<"d","a","t","a">>
SegHive == <<"h","i","v","e","_","b","o","x","e","s">>
SegPub == <<"p","u","b">>

Segments == {SegPrivate, SegGit, PatEnv, SegData, SegHive, SegPub}

Separators == {"/", BackSlash}

RECURSIVE PathsOfSegs(_)
PathsOfSegs(n) ==
    IF n = 1 THEN Segments
    ELSE { p \o <<sep>> \o s : p \in PathsOfSegs(n - 1), sep \in Separators, s \in Segments }

GuardPaths == UNION { PathsOfSegs(n) : n \in 1..MaxSegs }

VARIABLES sanctuary_paths, gPath, gCalled, gRaised, gSanctuary, gAllowed

gvars == <<sanctuary_paths, gPath, gCalled, gRaised, gSanctuary, gAllowed>>

\* inputs and results of the mode lookup and of the keyword restriction
VARIABLES rText, rContextMode, rMetaMode, rConfigMode, rCalled, rMode, rResult

rvars == <<rText, rContextMode, rMetaMode, rConfigMode, rCalled, rMode, rResult>>

\* state of one FlexYALMParser.parse_content call
VARIABLES
    pRaw,                  \* value returned by yaml.safe_load(content)
    pSource,               \* argument source
    pFallbackName,         \* argument fallback_name
    pStage,                \* position inside parse_content
    pNormalized,           \* local normalized
    pDiagnostics,          \* local diagnostics
    pOutcome,              \* how parse_content ended
    pMission,              \* the Mission it returned
    last_diagnostics,      \* FlexYALMParser.last_diagnostics
    pSeen                  \* the earlier calls on this parser object, oldest first

pvars == <<pRaw, pSource, pFallbackName, pStage, pNormalized, pDiagnostics,
           pOutcome, pMission, last_diagnostics, pSeen>>

\* the ContextBridge registry and the WorkspaceStore behind it
VARIABLES
    _outputs,              \* ContextBridge._outputs
    _diagnostics,          \* ContextBridge._diagnostics
    _mission_meta,         \* ContextBridge._mission_meta
    _mission_context,      \* ContextBridge._mission_context
    _mission_name,         \* ContextBridge._mission_name
    _current_workspace,    \* ContextBridge._current_workspace
    store,                 \* WorkspaceStore.data
    bOps,                  \* number of registry operations so far
    bLast                  \* the last registry operation and the registry before it

bvars == <<_outputs, _diagnostics, _mission_meta, _mission_context, _mission_name,
           _current_workspace, store, bOps, bLast>>

\* state of one task_apply_writes call and of the files it works on
VARIABLES
    files,                 \* the file system: path -> existence and text
    files0,                \* the file system when the call started
    filesBefore,           \* the file system before the last change was processed
    params_dry_run,        \* params["dry_run"]
    plan_data,             \* the plan: its dry_run key and its changes
    wStage,                \* position inside task_apply_writes
    dry_run,               \* local dry_run
    change_results,        \* local change_results, the ledger
    applied_changes,       \* local applied_changes
    dry_run_changes,       \* local dry_run_changes
    error_messages,        \* local error_messages (the index of each change)
    summary,               \* local summary
    wReturn                \* the string task_apply_writes returned

wvars == <<files, files0, filesBefore, params_dry_run, plan_data, wStage, dry_run,
           change_results, applied_changes, dry_run_changes, error_messages,
           summary, wReturn>>

\* one _slugify call and a second call on its result
VARIABLES
    sValue,                \* argument value of the first call
    sSlug,                 \* what the first call returned
    sAgain,                \* what the call on sSlug returned
    sCalls                 \* number of calls made

svars == <<sValue, sSlug, sAgain, sCalls>>

\* one TaskLogicHandler.execute call
VARIABLES
    task_name_arg,         \* task.name
    task_type_arg,         \* task.task_type
    dispatched             \* the branch execute took, "none" before the call

dvars == <<task_name_arg, task_type_arg, dispatched>>

\* one _resolve_placeholders call
VARIABLES
    value_arg,             \* argument value
    variables_arg,         \* argument variables, a dict in insertion order
    resolved,              \* what the call returned
    hCalled                \* whether the call was made

hvars == <<value_arg, variables_arg, resolved, hCalled>>

\* calls of single functions
fvars == <<svars, dvars, hvars>>

xvars == <<pvars, bvars, wvars, fvars>>

purevars == <<gvars, rvars, xvars>>

GuardInit ==
    /\ sanctuary_paths \in {DefaultSanctuaryPaths, BackslashSanctuaryPaths}
    /\ gPath \in GuardPaths
    /\ gCalled = {}
    /\ gRaised = "none"
    /\ gSanctuary = FALSE
    /\ gAllowed = << >>

GuardIdle ==
    /\ sanctuary_paths = DefaultSanctuaryPaths
    /\ gPath = SegPub
    /\ gCalled = {}
    /\ gRaised = "none"
    /\ gSanctuary = FALSE
    /\ gAllowed = << >>

\* ------------------------------------------------------------------------
\* read_only keyword restriction (core/guardrail.py) and mode lookup
\* (core/context_bridge.py)
\* ------------------------------------------------------------------------
ModeReadOnly == <<"r","e","a","d","_","o","n","l","y">>
ModeReadOnlyMixed == <<"R","e","a","d","_","O","n","l","y">>
ModeWriteEnabled == <<"w","r","i","t","e","_","e","n","a","b","l","e","d">>

KwWrite == <<"w","r","i","t","e">>
KwDelete == <<"d","e","l","e","t","e">>
KwMove == <<"m","o","v","e">>

RestrictedKeywords == <<KwWrite, KwDelete, KwMove>>

RECURSIVE KeywordLoop(_, _, _)
KeywordLoop(lowered, keywords, k) ==
    IF k > Len(keywords) THEN "ok"
    ELSE IF StrContains(lowered, keywords[k]) THEN "GuardrailError"
    ELSE KeywordLoop(lowered, keywords, k + 1)

\* _get_current_mode_from_config: defaults.mode of config/settings.yaml,
\* "write_enabled" when the file or the key is absent; cfg is that value.
get_current_mode_from_config(cfg) == cfg

enforce_task_restrictions_case_sensitive(task_text, mode, cfg) ==
    LET active_mode == IF Truthy(mode) THEN mode ELSE get_current_mode_from_config(cfg)
    IN  IF StrLower(active_mode) = ModeReadOnly
        THEN KeywordLoop(task_text, RestrictedKeywords, 1)
        ELSE "ok"

enforce_task_restrictions(task_text, mode, cfg) ==
    LET active_mode == IF Truthy(mode) THEN mode ELSE get_current_mode_from_config(cfg)
    IN  IF StrLower(active_mode) = ModeReadOnly
        THEN KeywordLoop(StrLower(task_text), RestrictedKeywords, 1)
        ELSE "ok"

get_mode_meta_first(context_mode, meta_mode) ==
    IF Truthy(meta_mode) THEN meta_mode ELSE context_mode

get_mode(context_mode, meta_mode) ==
    IF Truthy(context_mode) THEN context_mode ELSE meta_mode

\* ------------------------------------------------------------------------
\* Mission orchestrator (domain/services/executor_service.py)
\* ------------------------------------------------------------------------
GoalList == <<"l","i","s","t">>
GoalRewrite == <<"R","e","W","r","i","t","e">>
GoalMove == <<"M","O","V","E">>
GoalDeleted == <<"u","n","d","e","l","e","t","e","d">>

Goals == {GoalList, GoalRewrite}

MissionTasks == UNION { [1..n -> Goals] : n \in 0..MaxTasks }

\* mission.metadata: meta.mode, context.mode, context.workspace (present or
\* not), context.auto_run and the flex_parser diagnostics block
MissionMetadata ==
    { m \in [ meta_mode : {Falsy, ModeReadOnlyMixed},
              context_mode : {Falsy, ModeWriteEnabled},
              workspace_hint : BOOLEAN,
              context_auto_run : {"None", "True", "False"},
              flex_parser : BOOLEAN ] :
        ~m.workspace_hint => m.context_auto_run = "True" }

VARIABLES
    goals,                 \* mission.tasks[i].goal
    metadata,              \* mission.metadata as written by the parser
    configMode,            \* defaults.mode of config/settings.yaml
    require_confirmation,  \* argument of execute_mission
    auto_run,              \* WorkspaceStore.data["auto_run"]
    mission_context,       \* ContextBridge._mission_context["mode"]
    mission_meta,          \* ContextBridge._mission_meta["mode"]
    diagnostics,           \* ContextBridge._diagnostics
    missionStatus,         \* mission.status
    taskStatus,            \* task.status, per task
    taskError,             \* task.error
    taskResult,            \* task.result
    snapshot,              \* mission.metadata["context_bridge"]["diagnostics"]
    confirmation_needed,   \* local of execute_mission
    pc,                    \* who holds control
    cur,                   \* index of the loop variable `task`
    returned,              \* value returned by execute_mission
    confirmCalls,          \* tasks the confirmation callback was called with
    entered,               \* tasks _execute_task was called with
    handlerCalls,          \* tasks handler.execute was called with
    confirmAnswers,        \* what the confirmation callback answered
    handlerOutcomes,       \* how handler.execute ended
    raisedListeners,       \* listeners that raised in the first run
    rerun,                 \* second run of the same mission, quiet listeners
    firstRun               \* outcome of the first run

evars == <<goals, metadata, configMode, require_confirmation, auto_run,
           mission_context, mission_meta, diagnostics, missionStatus,
           taskStatus, taskError, taskResult, snapshot, confirmation_needed,
           pc, cur, returned, confirmCalls, entered, handlerCalls,
           confirmAnswers, handlerOutcomes, raisedListeners, rerun, firstRun>>

vars == <<evars, gvars, rvars, xvars>>

inputs == <<goals, metadata, configMode, require_confirmation>>

NumTasks == Len(goals)

TaskIds == 1..NumTasks

Diag(source, event, task, error) ==
    [source |-> source, event |-> event, task |-> task, error |-> error]

MissionDiag(event, task, error) == Diag("executor.mission", event, task, error)

TaskDiag(event, task, error) == Diag("executor.task", event, task, error)

FlexParserDiag == Diag("flex_parser", "None", 0, "None")

NoRun == [missionStatus |-> "none", taskStatus |-> << >>, returned |-> "none"]

ExecInit ==
    /\ goals \in MissionTasks
    /\ metadata \in MissionMetadata
    /\ configMode \in {ModeWriteEnabled, ModeReadOnly}
    /\ require_confirmation \in BOOLEAN
    /\ auto_run \in BOOLEAN
    /\ mission_context = Falsy
    /\ mission_meta = Falsy
    /\ diagnostics = << >>
    /\ missionStatus = "PENDING"
    /\ taskStatus = [i \in 1..Len(goals) |-> "PENDING"]
    /\ taskError = [i \in 1..Len(goals) |-> "None"]
    /\ taskResult = [i \in 1..Len(goals) |-> "None"]
    /\ snapshot = << >>
    /\ confirmation_needed = FALSE
    /\ pc = "idle"
    /\ cur = 0
    /\ returned = "none"
    /\ confirmCalls = << >>
    /\ entered = << >>
    /\ handlerCalls = << >>
    /\ confirmAnswers = [i \in 1..Len(goals) |-> "unset"]
    /\ handlerOutcomes = [i \in 1..Len(goals) |-> "unset"]
    /\ raisedListeners = {}
    /\ rerun = FALSE
    /\ firstRun = NoRun

ExecIdle ==
    /\ goals = << >>
    /\ metadata = [meta_mode |-> Falsy, context_mode |-> Falsy,
                   workspace_hint |-> FALSE, context_auto_run |-> "None",
                   flex_parser |-> FALSE]
    /\ configMode = ModeWriteEnabled
    /\ require_confirmation = FALSE
    /\ auto_run = FALSE
    /\ mission_context = Falsy
    /\ mission_meta = Falsy
    /\ diagnostics = << >>
    /\ missionStatus = "PENDING"
    /\ taskStatus = << >>
    /\ taskError = << >>
    /\ taskResult = << >>
    /\ snapshot = << >>
    /\ confirmation_needed = FALSE
    /\ pc = "idle"
    /\ cur = 0
    /\ returned = "none"
    /\ confirmCalls = << >>
    /\ entered = << >>
    /\ handlerCalls = << >>
    /\ confirmAnswers = << >>
    /\ handlerOutcomes = << >>
    /\ raisedListeners = {}
    /\ rerun = FALSE
    /\ firstRun = NoRun

\* --- code segments shared by several call sites ---------------------------

\* execute_mission, lines 107-114: the except clause of the mission loop
ExceptHandler(exc) ==
    /\ missionStatus' = "FAILED"
    /\ diagnostics' = Append(diagnostics, MissionDiag("failed", 0, exc))
    /\ snapshot' = diagnostics'
    /\ pc' = "on_mission_failed_except"
    /\ UNCHANGED <<taskStatus, taskError, cur, returned, entered>>

\* execute_mission, lines 97-103: every task returned True
MissionCompleted(d) ==
    /\ missionStatus' = "COMPLETED"
    /\ diagnostics' = Append(d, MissionDiag("completed", 0, "None"))
    /\ snapshot' = diagnostics'
    /\ pc' = "on_mission_completed"
    /\ UNCHANGED <<taskStatus, taskError, returned, entered>>

\* the mutant cancels a blocked task instead of failing it
BeginTask_cancels_blocked(i, ms, d, mode) ==
    /\ missionStatus' = ms
    /\ entered' = Append(entered, i)
    /\ cur' = i
    /\ returned' = returned
    /\ IF enforce_task_restrictions(goals[i], mode, configMode) = "GuardrailError"
       THEN /\ taskStatus' = [taskStatus EXCEPT ![i] = "CANCELLED"]
            /\ taskError' = [taskError EXCEPT ![i] = "Forbidden in read_only mode"]
            /\ diagnostics' = Append(d, TaskDiag("blocked", i, "Forbidden in read_only mode"))
            /\ snapshot' = diagnostics'
            /\ pc' = "on_task_failed"
       ELSE /\ taskStatus' = [taskStatus EXCEPT ![i] = "IN_PROGRESS"]
            /\ taskError' = taskError
            /\ diagnostics' = Append(d, TaskDiag("started", i, "None"))
            /\ snapshot' = diagnostics'
            /\ pc' = "on_task_started"

\* _execute_task, lines 129-165, up to the first listener call
BeginTask(i, ms, d, mode) ==
    /\ missionStatus' = ms
    /\ entered' = Append(entered, i)
    /\ cur' = i
    /\ returned' = returned
    /\ IF enforce_task_restrictions(goals[i], mode, configMode) = "GuardrailError"
       THEN /\ taskStatus' = [taskStatus EXCEPT ![i] = "FAILED"]
            /\ taskError' = [taskError EXCEPT ![i] = "Forbidden in read_only mode"]
            /\ diagnostics' = Append(d, TaskDiag("blocked", i, "Forbidden in read_only mode"))
            /\ snapshot' = diagnostics'
            /\ pc' = "on_task_failed"
       ELSE /\ taskStatus' = [taskStatus EXCEPT ![i] = "IN_PROGRESS"]
            /\ taskError' = taskError
            /\ diagnostics' = Append(d, TaskDiag("started", i, "None"))
            /\ snapshot' = diagnostics'
            /\ pc' = "on_task_started"

\* execute_mission, lines 68-69 and 86: the head of the loop for task i
NextTask(i, ms, d, snap, cn, mode) ==
    IF i > NumTasks
    THEN MissionCompleted(d) /\ cur' = i
    ELSE IF cn
    THEN /\ pc' = "confirm"
         /\ cur' = i
         /\ missionStatus' = ms
         /\ diagnostics' = d
         /\ snapshot' = snap
         /\ UNCHANGED <<taskStatus, taskError, returned, entered>>
    ELSE BeginTask(i, ms, d, mode)

\* execute_mission, lines 61-62
ConfirmationNeeded_ignores_auto_run(require, stored_auto_run) == require

ConfirmationNeeded(require, stored_auto_run) == require /\ ~stored_auto_run

ListenerOutcomes == IF rerun THEN {"ok"} ELSE {"ok", "raise"}

ConfirmerAnswers(i) ==
    IF rerun /\ confirmAnswers[i] # "unset" THEN {confirmAnswers[i]} ELSE {"yes", "no"}

HandlerEndings(i) ==
    IF rerun /\ handlerOutcomes[i] # "unset" THEN {handlerOutcomes[i]} ELSE {"return", "raise"}

Raised(listener) == raisedListeners' = raisedListeners \cup {listener}

\* --- actions: one per piece of code between two calls out of the executor --

\* execute_mission, lines 50-69: reset, attach_mission, first snapshot,
\* RUNNING, 'started', the confirmation decision, then the first task
ExecuteMission ==
    /\ pc = "idle"
    /\ LET attached == IF metadata.flex_parser THEN <<FlexParserDiag>> ELSE << >>
           stored == IF metadata.workspace_hint /\ metadata.context_auto_run # "None"
                     THEN metadata.context_auto_run = "True"
                     ELSE auto_run
           cn == ConfirmationNeeded(require_confirmation, stored)
       IN  /\ mission_context' = metadata.context_mode
           /\ mission_meta' = metadata.meta_mode
           /\ auto_run' = stored
           /\ confirmation_needed' = cn
           /\ NextTask(1, "RUNNING", Append(attached, MissionDiag("started", 0, "None")),
                       attached, cn, get_mode(metadata.context_mode, metadata.meta_mode))
    /\ UNCHANGED <<inputs, taskResult, confirmCalls, handlerCalls, confirmAnswers,
                   handlerOutcomes, raisedListeners, rerun, firstRun, purevars>>

\* execute_mission, lines 69-81: the confirmation callback answers
ConfirmTask ==
    /\ pc = "confirm"
    /\ \E answer \in ConfirmerAnswers(cur) :
        /\ confirmCalls' = Append(confirmCalls, cur)
        /\ confirmAnswers' = [confirmAnswers EXCEPT ![cur] = answer]
        /\ IF answer = "yes"
           THEN BeginTask(cur, missionStatus, diagnostics,
                          get_mode(mission_context, mission_meta))
           ELSE /\ taskStatus' = [taskStatus EXCEPT ![cur] = "CANCELLED"]
                /\ missionStatus' = "CANCELLED"
                /\ diagnostics' = Append(diagnostics, MissionDiag("cancelled", cur, "None"))
                /\ snapshot' = diagnostics'
                /\ pc' = "on_mission_failed"
                /\ UNCHANGED <<taskError, cur, returned, entered>>
    /\ UNCHANGED <<inputs, auto_run, mission_context, mission_meta, taskResult,
                   confirmation_needed, handlerCalls, handlerOutcomes,
                   raisedListeners, rerun, firstRun, purevars>>

\* _execute_task, lines 164-165: on_task_started returns or raises
OnTaskStarted ==
    /\ pc = "on_task_started"
    /\ \E outcome \in ListenerOutcomes :
        IF outcome = "ok"
        THEN /\ pc' = "handler"
             /\ UNCHANGED <<missionStatus, diagnostics, snapshot, taskStatus, taskError,
                            cur, returned, entered, raisedListeners>>
        ELSE ExceptHandler("listener error") /\ Raised("on_task_started")
    /\ UNCHANGED <<inputs, auto_run, mission_context, mission_meta, taskResult,
                   confirmation_needed, confirmCalls, handlerCalls, confirmAnswers,
                   handlerOutcomes, rerun, firstRun, purevars>>

\* _execute_task_logic (lines 211-214) and _execute_task lines 170-178:
\* handler.execute returns a status string or raises
ExecuteTaskLogic ==
    /\ pc = "handler"
    /\ \E ending \in HandlerEndings(cur) :
        /\ handlerCalls' = Append(handlerCalls, cur)
        /\ handlerOutcomes' = [handlerOutcomes EXCEPT ![cur] = ending]
        /\ taskResult' = [taskResult EXCEPT ![cur] =
                             IF ending = "return" THEN "[OK]"
                             ELSE "[ERROR] Erreur dans la logique de tache"]
    /\ taskStatus' = [taskStatus EXCEPT ![cur] = "COMPLETED"]
    /\ diagnostics' = Append(diagnostics, TaskDiag("completed", cur, "None"))
    /\ snapshot' = diagnostics'
    /\ pc' = "on_task_completed"
    /\ UNCHANGED <<inputs, auto_run, mission_context, mission_meta, missionStatus,
                   taskError, confirmation_needed, cur, returned, confirmCalls, entered,
                   confirmAnswers, raisedListeners, rerun, firstRun, purevars>>

\* _execute_task, lines 180-192: on_task_completed returns (the loop goes
\* on) or raises (the except clause of _execute_task)
OnTaskCompleted ==
    /\ pc = "on_task_completed"
    /\ \E outcome \in ListenerOutcomes :
        IF outcome = "ok"
        THEN /\ NextTask(cur + 1, missionStatus, diagnostics, snapshot, confirmation_needed,
                      get_mode(mission_context, mission_meta))
             /\ UNCHANGED raisedListeners
        ELSE /\ taskStatus' = [taskStatus EXCEPT ![cur] = "FAILED"]
             /\ taskError' = [taskError EXCEPT ![cur] = "listener error"]
             /\ diagnostics' = Append(diagnostics, TaskDiag("failed", cur, "listener error"))
             /\ snapshot' = diagnostics'
             /\ pc' = "on_task_failed"
             /\ Raised("on_task_completed")
             /\ UNCHANGED <<missionStatus, cur, returned, entered>>
    /\ UNCHANGED <<inputs, auto_run, mission_context, mission_meta, taskResult,
                   confirmation_needed, confirmCalls, handlerCalls, confirmAnswers,
                   handlerOutcomes, rerun, firstRun, purevars>>

\* the mutant goes on to the next task after a failed one
OnTaskFailed_continues ==
    /\ pc = "on_task_failed"
    /\ \E outcome \in ListenerOutcomes :
        IF outcome = "ok"
        THEN /\ NextTask(cur + 1, missionStatus, diagnostics, snapshot, confirmation_needed,
                      get_mode(mission_context, mission_meta))
             /\ UNCHANGED raisedListeners
        ELSE ExceptHandler("listener error") /\ Raised("on_task_failed")
    /\ UNCHANGED <<inputs, auto_run, mission_context, mission_meta, taskResult,
                   confirmation_needed, confirmCalls, handlerCalls, confirmAnswers,
                   handlerOutcomes, rerun, firstRun, purevars>>

\* _execute_task, lines 153-155 and 194-197, then execute_mission lines
\* 86-92: on_task_failed returns (the task returned False) or raises
OnTaskFailed ==
    /\ pc = "on_task_failed"
    /\ \E outcome \in ListenerOutcomes :
        IF outcome = "ok"
        THEN /\ missionStatus' = "FAILED"
             /\ diagnostics' = Append(diagnostics, MissionDiag("failed", cur, "None"))
             /\ snapshot' = diagnostics'
             /\ pc' = "on_mission_failed"
             /\ UNCHANGED <<taskStatus, taskError, cur, returned, entered, raisedListeners>>
        ELSE ExceptHandler("listener error") /\ Raised("on_task_failed")
    /\ UNCHANGED <<inputs, auto_run, mission_context, mission_meta, taskResult,
                   confirmation_needed, confirmCalls, handlerCalls, confirmAnswers,
                   handlerOutcomes, rerun, firstRun, purevars>>

\* execute_mission, lines 82-84 and 93-95: on_mission_failed inside the try
OnMissionFailed ==
    /\ pc = "on_mission_failed"
    /\ \E outcome \in ListenerOutcomes :
        IF outcome = "ok"
        THEN /\ returned' = "False"
             /\ pc' = "done"
             /\ UNCHANGED <<missionStatus, diagnostics, snapshot, taskStatus, taskError,
                            cur, entered, raisedListeners>>
        ELSE ExceptHandler("listener error") /\ Raised("on_mission_failed")
    /\ UNCHANGED <<inputs, auto_run, mission_context, mission_meta, taskResult,
                   confirmation_needed, confirmCalls, handlerCalls, confirmAnswers,
                   handlerOutcomes, rerun, firstRun, purevars>>

\* execute_mission, lines 114-116: on_mission_failed inside the except
\* clause; an exception raised here leaves execute_mission
OnMissionFailedInExcept ==
    /\ pc = "on_mission_failed_except"
    /\ \E outcome \in ListenerOutcomes :
        IF outcome = "ok"
        THEN /\ returned' = "False"
             /\ pc' = "done"
             /\ UNCHANGED raisedListeners
        ELSE /\ returned' = "raised"
             /\ pc' = "raised"
             /\ Raised("on_mission_failed")
    /\ UNCHANGED <<inputs, auto_run, mission_context, mission_meta, diagnostics,
                   missionStatus, taskStatus, taskError, taskResult, snapshot,
                   confirmation_needed, cur, confirmCalls, entered, handlerCalls,
                   confirmAnswers, handlerOutcomes, rerun, firstRun, purevars>>

\* execute_mission, lines 103-105: on_mission_completed returns or raises
OnMissionCompleted ==
    /\ pc = "on_mission_completed"
    /\ \E outcome \in ListenerOutcomes :
        IF outcome = "ok"
        THEN /\ returned' = "True"
             /\ pc' = "done"
             /\ UNCHANGED <<missionStatus, diagnostics, snapshot, taskStatus, taskError,
                            cur, entered, raisedListeners>>
        ELSE ExceptHandler("listener error") /\ Raised("on_mission_completed")
    /\ UNCHANGED <<inputs, auto_run, mission_context, mission_meta, taskResult,
                   confirmation_needed, confirmCalls, handlerCalls, confirmAnswers,
                   handlerOutcomes, rerun, firstRun, purevars>>

Finished == pc \in {"done", "raised"}

\* The same mission document is loaded again (fresh Mission and Task
\* objects, statuses at their dataclass defaults) and executed by the same
\* service and bridge, with the same confirmer and handlers and with
\* listeners that do not raise.
RunAgain ==
    /\ Finished
    /\ ~rerun
    /\ raisedListeners # {}
    /\ rerun' = TRUE
    /\ firstRun' = [missionStatus |-> missionStatus, taskStatus |-> taskStatus,
                    returned |-> returned]
    /\ missionStatus' = "PENDING"
    /\ taskStatus' = [i \in TaskIds |-> "PENDING"]
    /\ taskError' = [i \in TaskIds |-> "None"]
    /\ taskResult' = [i \in TaskIds |-> "None"]
    /\ snapshot' = << >>
    /\ pc' = "idle"
    /\ cur' = 0
    /\ returned' = "none"
    /\ confirmCalls' = << >>
    /\ entered' = << >>
    /\ handlerCalls' = << >>
    /\ UNCHANGED <<inputs, auto_run, mission_context, mission_meta, diagnostics,
                   confirmation_needed, confirmAnswers, handlerOutcomes,
                   raisedListeners, purevars>>

\* --- mode lookup and keyword restriction on one text -----------------------

GoalMov == <<"m","o","v">>

RestrictTexts == {GoalList, GoalRewrite, GoalMove, GoalDeleted, GoalMov}

RestrictInit ==
    /\ rText \in RestrictTexts
    /\ rContextMode \in {Falsy, ModeWriteEnabled, ModeReadOnly}
    /\ rMetaMode \in {Falsy, ModeReadOnlyMixed, ModeWriteEnabled}
    /\ rConfigMode \in {ModeWriteEnabled, ModeReadOnly}
    /\ rCalled = {}
    /\ rMode = Falsy
    /\ rResult = "none"

RestrictIdle ==
    /\ rText = GoalList
    /\ rContextMode = Falsy
    /\ rMetaMode = Falsy
    /\ rConfigMode = ModeWriteEnabled
    /\ rCalled = {}
    /\ rMode = Falsy
    /\ rResult = "none"

\* _execute_task, line 129
GetMode ==
    /\ "get_mode" \notin rCalled
    /\ rCalled' = rCalled \cup {"get_mode"}
    /\ rMode' = get_mode(rContextMode, rMetaMode)
    /\ UNCHANGED <<rText, rContextMode, rMetaMode, rConfigMode, rResult, evars, gvars, xvars>>

\* _execute_task, line 138
EnforceTaskRestrictions ==
    /\ "get_mode" \in rCalled
    /\ "enforce_task_restrictions" \notin rCalled
    /\ rCalled' = rCalled \cup {"enforce_task_restrictions"}
    /\ rResult' = enforce_task_restrictions(rText, rMode, rConfigMode)
    /\ UNCHANGED <<rText, rContextMode, rMetaMode, rConfigMode, rMode, evars, gvars, xvars>>

RestrictNext == GetMode \/ EnforceTaskRestrictions

\* ------------------------------------------------------------------------
\* FlexYALMParser (src/data/flex_yalm_parser.py)
\*
\* A loaded YAML value is a record [kind, str, items]: kind is the Python
\* type, str the characters of a string (of str(value) for a number),
\* items the elements of a list or the key/value entries of a dict, in
\* insertion order.
\* ------------------------------------------------------------------------
VNone == [kind |-> "none", str |-> << >>, items |-> << >>]

VStr(s) == [kind |-> "str", str |-> s, items |-> << >>]

VInt == [kind |-> "int", str |-> <<"3">>, items |-> << >>]

VList(xs) == [kind |-> "list", str |-> << >>, items |-> xs]

VDict(entries) == [kind |-> "dict", str |-> << >>, items |-> entries]

Entry(k, v) == [key |-> k, keykind |-> "str", val |-> v]

IntEntry(k, v) == [key |-> k, keykind |-> "int", val |-> v]

\* truth value of a Python object
PyBool(v) ==
    CASE v.kind = "none" -> FALSE
      [] v.kind = "str" -> v.str # << >>
      [] v.kind = "int" -> TRUE
      [] OTHER -> v.items # << >>

RECURSIVE DictGetFrom(_, _, _)
DictGetFrom(d, key, k) ==
    IF k > Len(d.items) THEN VNone
    ELSE IF d.items[k].key = key /\ d.items[k].keykind = "str" THEN d.items[k].val
    ELSE DictGetFrom(d, key, k + 1)

\* mapping.get(key)
DictGet(d, key) == DictGetFrom(d, key, 1)

\* key in mapping
DictHas(d, key) ==
    \E k \in 1..Len(d.items) : d.items[k].key = key /\ d.items[k].keykind = "str"

\* mapping.setdefault(key, value)
DictSetDefault(d, key, value) ==
    IF DictHas(d, key) THEN d ELSE VDict(Append(d.items, Entry(key, value)))

RECURSIVE LStrip(_, _)
LStrip(s, chars) ==
    IF s # << >> /\ Head(s) \in chars THEN LStrip(Tail(s), chars) ELSE s

RECURSIVE RStrip(_, _)
RStrip(s, chars) ==
    IF s # << >> /\ s[Len(s)] \in chars
    THEN RStrip(SubSeq(s, 1, Len(s) - 1), chars)
    ELSE s

\* str.strip() and str.strip("_")
StrStrip(s) == RStrip(LStrip(s, {" "}), {" "})

StrStripChars(s, chars) == RStrip(LStrip(s, chars), chars)

SlugAlphabet ==
    {"a","b","c","d","e","f","g","h","i","j","k","l","m","n","o","p","q","r",
     "s","t","u","v","w","x","y","z","0","1","2","3","4","5","6","7","8","9"}

\* membership in a regex character class, [chars] or [^chars]
InClass(c, chars, negated) == IF negated THEN c \notin chars ELSE c \in chars

RECURSIVE RunEnd(_, _, _, _)
RunEnd(value, chars, negated, i) ==
    IF i <= Len(value) /\ InClass(value[i], chars, negated)
    THEN RunEnd(value, chars, negated, i + 1)
    ELSE i

RECURSIVE ReSubFrom(_, _, _, _)
ReSubFrom(value, chars, negated, i) ==
    IF i > Len(value) THEN << >>
    ELSE IF InClass(value[i], chars, negated)
         THEN <<"_">> \o ReSubFrom(value, chars, negated, RunEnd(value, chars, negated, i))
         ELSE <<value[i]>> \o ReSubFrom(value, chars, negated, i + 1)

\* re.sub(r"[class]+", "_", value)
ReSub(value, chars, negated) == ReSubFrom(value, chars, negated, 1)

\* the mutant keeps the case and the spacing of the name
slugify_verbatim(value) ==
    IF ~PyBool(value) THEN << >> ELSE value.str

\* the mutant strips the underscores before it replaces the other characters
slugify_strips_first(value) ==
    IF ~PyBool(value) THEN << >>
    ELSE LET lowered == StrStripChars(StrLower(StrStrip(value.str)), {"_"})
             replaced == ReSub(lowered, SlugAlphabet, TRUE)
         IN  ReSub(replaced, {"_"}, FALSE)

\* _slugify, lines 437-443
slugify(value) ==
    IF ~PyBool(value) THEN << >>
    ELSE LET lowered == StrLower(StrStrip(value.str))
             replaced == ReSub(lowered, SlugAlphabet, TRUE)
         IN  StrStripChars(ReSub(replaced, {"_"}, FALSE), {"_"})

RECURSIVE LastIndexOf(_, _, _)
LastIndexOf(s, c, i) ==
    IF i = 0 THEN 0 ELSE IF s[i] = c THEN i ELSE LastIndexOf(s, c, i - 1)

\* Path(source).stem: the last component without its last suffix
PathStem(source) ==
    LET trimmed == RStrip(source, {"/"})
        slash == LastIndexOf(trimmed, "/", Len(trimmed))
        name == SubSeq(trimmed, slash + 1, Len(trimmed))
        dot == LastIndexOf(name, ".", Len(name))
    IN  IF dot > 1 /\ dot < Len(name) THEN SubSeq(name, 1, dot - 1) ELSE name

Digit(n) ==
    CASE n = 0 -> "0" [] n = 1 -> "1" [] n = 2 -> "2" [] n = 3 -> "3"
      [] n = 4 -> "4" [] n = 5 -> "5" [] n = 6 -> "6" [] n = 7 -> "7"
      [] n = 8 -> "8" [] OTHER -> "9"

\* f"task_{index}"
TaskDefaultName(index) == <<"t","a","s","k","_", Digit(index)>>

\* f"mission_{datetime.utcnow().strftime(...)}", now being the clock reading
TimestampName(now) == <<"m","i","s","s","i","o","n","_", Digit(now)>>

RECURSIVE PickFirstFrom(_, _, _, _)
PickFirstFrom(mapping, keys, default, k) ==
    IF k > Len(keys) THEN default
    ELSE IF DictGet(mapping, keys[k]).kind # "none" THEN DictGet(mapping, keys[k])
    ELSE PickFirstFrom(mapping, keys, default, k + 1)

_pick_first(mapping, keys, default) == PickFirstFrom(mapping, keys, default, 1)

RECURSIVE JoinStripped(_, _)
JoinStripped(xs, k) ==
    IF k > Len(xs) THEN << >>
    ELSE LET item == StrStrip(xs[k].str)
             rest == JoinStripped(xs, k + 1)
         IN  IF item = << >> THEN rest
             ELSE IF rest = << >> THEN item
             ELSE item \o <<" ">> \o rest

Instruction == <<"i","n","s","t","r","u","c","t","i","o","n">>

Warning(index, text) == [index |-> index, text |-> text]

NoBlueprint == [name |-> VNone, goal |-> << >>, task_type |-> Instruction]

Coerced(bp) == [raised |-> FALSE, blueprint |-> bp, warning |-> Warning(0, "")]

CoerceError(index, text) ==
    [raised |-> TRUE, blueprint |-> NoBlueprint, warning |-> Warning(index, text)]

_coerce_task_blueprint(index, raw_task) ==
    IF raw_task.kind = "dict"
    THEN LET name == _pick_first(raw_task, <<"name", "title", "id">>,
                                 VStr(TaskDefaultName(index)))
             goal_value == _pick_first(raw_task,
                                       <<"goal", "prompt", "description", "summary">>,
                                       VNone)
             goal == IF goal_value.kind = "list"
                     THEN JoinStripped(goal_value.items, 1)
                     ELSE IF PyBool(goal_value) THEN StrStrip(goal_value.str)
                     ELSE << >>
             task_type == _pick_first(raw_task, <<"task_type", "type">>,
                                      VStr(Instruction))
         IN  IF goal = << >>
             THEN CoerceError(index, "missing goal/description in provided mapping.")
             ELSE Coerced([name |-> name, goal |-> goal,
                           task_type |-> task_type.str])
    ELSE IF raw_task.kind = "str"
    THEN LET goal == StrStrip(raw_task.str)
         IN  IF goal = << >>
             THEN CoerceError(index, "empty instruction string.")
             ELSE Coerced([name |-> VStr(TaskDefaultName(index)), goal |-> goal,
                           task_type |-> Instruction])
    ELSE CoerceError(index, "unsupported structure")

RECURSIVE BlueprintLoop(_, _, _)
BlueprintLoop(raw_tasks, index, acc) ==
    IF index > Len(raw_tasks) THEN acc
    ELSE LET c == _coerce_task_blueprint(index, raw_tasks[index])
         IN  BlueprintLoop(raw_tasks, index + 1,
                 IF c.raised
                 THEN [acc EXCEPT !.warnings = Append(@, c.warning)]
                 ELSE [acc EXCEPT !.blueprints = Append(@, c.blueprint)])

_build_task_blueprints(raw_tasks) ==
    BlueprintLoop(raw_tasks, 1, [blueprints |-> << >>, warnings |-> << >>])

\* str(key) for the keys a tasks mapping is given here
StrOfKey(key) ==
    CASE key = "" -> << >>
      [] key = "t" -> <<"t">>
      [] key = "u" -> <<"u">>
      [] OTHER -> <<"k">>

RECURSIVE DictAsTasks(_, _)
DictAsTasks(value, k) ==
    IF k > Len(value.items) THEN << >>
    ELSE <<VDict(<<Entry("name", VStr(StrOfKey(value.items[k].key))),
                   Entry("goal", value.items[k].val)>>)>>
         \o DictAsTasks(value, k + 1)

_coerce_task_container(value) ==
    CASE value.kind = "none" -> << >>
      [] value.kind = "list" -> value.items
      [] value.kind = "dict" -> DictAsTasks(value, 1)
      [] OTHER -> <<value>>

_ensure_iterable(value) ==
    CASE value.kind = "none" -> << >>
      [] value.kind = "list" -> value.items
      [] OTHER -> <<value>>

RECURSIVE NameHints(_, _, _)
NameHints(mapping, keys, k) ==
    IF k > Len(keys) THEN << >>
    ELSE LET value == DictGet(mapping, keys[k])
         IN  (IF value.kind = "str" /\ StrStrip(value.str) # << >>
              THEN <<StrStrip(value.str)>> ELSE << >>)
             \o NameHints(mapping, keys, k + 1)

MetaNameKeys == <<"project_name", "mission_id", "name", "title">>

RootNameKeys == <<"project_name", "mission", "mission_name", "name", "title">>

\* the list `candidates` of _build_meta
NameCandidates(meta, fallback_name, source, root) ==
    NameHints(meta, MetaNameKeys, 1)
    \o (IF PyBool(root) THEN NameHints(root, RootNameKeys, 1) ELSE << >>)
    \o (IF PyBool(fallback_name) /\ fallback_name.kind = "str"
        THEN <<fallback_name.str>> ELSE << >>)
    \o (IF PyBool(source) THEN <<PathStem(source.str)>> ELSE << >>)

\* next((c for c in candidates if c), None)
FirstNonEmpty(candidates) ==
    LET kept == SelectSeq(candidates, LAMBDA c : c # << >>)
    IN  IF kept = << >> THEN VNone ELSE VStr(kept[1])

\* the mutant overwrites a project_name given in meta
_build_meta_overwrite(meta, fallback_name, source, root, now) ==
    LET slug == slugify(FirstNonEmpty(NameCandidates(meta, fallback_name, source, root)))
        project_name == IF slug = << >> THEN TimestampName(now) ELSE slug
        dropped == VDict(SelectSeq(meta.items, LAMBDA e : e.key # "project_name"))
    IN  DictSetDefault(DictSetDefault(DictSetDefault(dropped,
            "project_name", VStr(project_name)),
            "mission_id", VStr(project_name)),
            "version", VStr(<<"1",".","0",".","0">>))

_build_meta(meta, fallback_name, source, root, now) ==
    LET slug == slugify(FirstNonEmpty(NameCandidates(meta, fallback_name, source, root)))
        project_name == IF slug = << >> THEN TimestampName(now) ELSE slug
    IN  DictSetDefault(DictSetDefault(DictSetDefault(meta,
            "project_name", VStr(project_name)),
            "mission_id", VStr(project_name)),
            "version", VStr(<<"1",".","0",".","0">>))

Trace(source, count) == [source |-> source, count |-> count]

MetaSources ==
    << <<"task", "meta.task">>, <<"tasks", "meta.tasks">>,
       <<"mission", "meta.mission">>, <<"mission_prompt", "meta.mission_prompt">>,
       <<"goal", "meta.goal">>, <<"prompt", "meta.prompt">> >>

RootSources ==
    << <<"mission", "root.mission">>, <<"task", "root.task">>,
       <<"prompt", "root.prompt">>, <<"prompts", "root.prompts">>,
       <<"instructions", "root.instructions">>,
       <<"instruction", "root.instruction">>, <<"steps", "root.steps">> >>

Collected(candidates, fallback_trace) ==
    [candidates |-> candidates, fallback_trace |-> fallback_trace]

\* the nested function extend_from of _collect_implicit_tasks
extend_from(acc, value, source) ==
    LET items == _ensure_iterable(value)
    IN  IF items = << >> THEN acc
        ELSE Collected(acc.candidates \o items,
                       Append(acc.fallback_trace, Trace(source, Len(items))))

RECURSIVE ExtendLoop(_, _, _, _)
ExtendLoop(acc, mapping, sources, k) ==
    IF k > Len(sources) THEN acc
    ELSE ExtendLoop(extend_from(acc, DictGet(mapping, sources[k][1]), sources[k][2]),
                    mapping, sources, k + 1)

\* the mutant reads the root keys before the meta keys
_collect_implicit_tasks_root_first(raw) ==
    LET meta == DictGet(raw, "meta")
        from_root == ExtendLoop(Collected(<< >>, << >>), raw, RootSources, 1)
        from_meta == IF meta.kind = "dict"
                     THEN ExtendLoop(from_root, meta, MetaSources, 1)
                     ELSE from_root
    IN  IF from_meta.candidates = << >> /\ PyBool(DictGet(raw, "description"))
        THEN extend_from(from_meta, DictGet(raw, "description"), "root.description")
        ELSE from_meta

_collect_implicit_tasks(raw) ==
    LET meta == DictGet(raw, "meta")
        from_meta == IF meta.kind = "dict"
                     THEN ExtendLoop(Collected(<< >>, << >>), meta, MetaSources, 1)
                     ELSE Collected(<< >>, << >>)
        from_root == ExtendLoop(from_meta, raw, RootSources, 1)
    IN  IF from_root.candidates = << >> /\ PyBool(DictGet(raw, "description"))
        THEN extend_from(from_root, DictGet(raw, "description"), "root.description")
        ELSE from_root

\* sorted(raw.keys()) raises TypeError when str and int keys are mixed
SortableKeys(raw) ==
    \A i, j \in 1..Len(raw.items) : raw.items[i].keykind = raw.items[j].keykind

NoNormalized == [meta |-> VDict(<< >>), tasks |-> << >>]

NoDiagnostics ==
    [source |-> VNone, mode |-> "", warnings |-> << >>, task_count |-> 0,
     primary_prompt |-> << >>, fallback_chain |-> << >>]

NormalizeRaised(exc) ==
    [outcome |-> exc, normalized |-> NoNormalized, diagnostics |-> NoDiagnostics]

\* _normalize, lines 188-210
NormalizeTail(source, meta, built, warnings, mode, fallback_trace) ==
    IF built.blueprints = << >>
    THEN NormalizeRaised("FlexYALMParserError")
    ELSE [outcome |-> "ok",
          normalized |-> [meta |-> meta, tasks |-> built.blueprints],
          diagnostics |-> [source |-> source, mode |-> mode,
                           warnings |-> warnings \o built.warnings,
                           task_count |-> Len(built.blueprints),
                           primary_prompt |-> built.blueprints[1].goal,
                           fallback_chain |-> fallback_trace]]

\* the mutant lets a non-empty tasks section be joined by the other sources
explicit_or_implicit_merged(raw, explicit_tasks) ==
    LET implicit == _collect_implicit_tasks(raw)
    IN  IF explicit_tasks # << >>
        THEN Collected(explicit_tasks \o implicit.candidates,
                       <<Trace("tasks", Len(explicit_tasks))>> \o implicit.fallback_trace)
        ELSE implicit

\* _normalize, lines 109-118
explicit_or_implicit(raw, explicit_tasks) ==
    IF explicit_tasks # << >>
    THEN Collected(explicit_tasks, <<Trace("tasks", Len(explicit_tasks))>>)
    ELSE _collect_implicit_tasks(raw)

_normalize(raw, source, fallback_name, now) ==
    CASE raw.kind = "dict" ->
           IF ~SortableKeys(raw) THEN NormalizeRaised("TypeError")
           ELSE
           LET meta_value == DictGet(raw, "meta")
               raw_meta == IF meta_value.kind = "dict" THEN meta_value ELSE VDict(<< >>)
               explicit_tasks == _coerce_task_container(DictGet(raw, "tasks"))
               warnings ==
                   (IF ~DictHas(raw, "meta")
                    THEN <<Warning(0, "Missing 'meta' section; generated fallback metadata.")>>
                    ELSE << >>)
                   \o (IF ~PyBool(DictGet(raw, "tasks"))
                       THEN <<Warning(0, "Missing 'tasks' section; synthesizing tasks from prompts.")>>
                       ELSE << >>)
               collected == explicit_or_implicit(raw, explicit_tasks)
               built == _build_task_blueprints(collected.candidates)
               meta == _build_meta(raw_meta, fallback_name, source, raw, now)
               mode == IF PyBool(DictGet(raw, "prompt")) /\ explicit_tasks = << >>
                       THEN "meta_plus_prompt"
                       ELSE IF DictHas(raw, "meta") /\ PyBool(DictGet(raw, "tasks"))
                       THEN "strict"
                       ELSE IF DictHas(raw, "meta") THEN "flex_meta"
                       ELSE IF PyBool(DictGet(raw, "tasks")) THEN "tasks_only"
                       ELSE "prompt_only"
           IN  NormalizeTail(source, meta, built, warnings, mode, collected.fallback_trace)
      [] raw.kind = "list" ->
           LET built == _build_task_blueprints(raw.items)
               meta == _build_meta(VDict(<< >>), fallback_name, source, VNone, now)
           IN  NormalizeTail(source, meta, built,
                   <<Warning(0, "Root YAML list interpreted as sequential instructions.")>>,
                   "prompt_list", <<Trace("root_list", Len(raw.items))>>)
      [] raw.kind = "str" ->
           LET built == _build_task_blueprints(<<raw>>)
               meta == _build_meta(VDict(<< >>), fallback_name, source, VNone, now)
           IN  NormalizeTail(source, meta, built,
                   <<Warning(0, "Root YAML string interpreted as single instruction.")>>,
                   "prompt_only", <<Trace("root_string", 1)>>)
      [] OTHER -> NormalizeRaised("FlexYALMParserError")

NoMission == [name |-> VNone, tasks |-> << >>]

\* Mission.__post_init__ and Task.__post_init__ raise ValueError
_build_mission(normalized) ==
    LET name == DictGet(normalized.meta, "project_name")
    IN  IF ~PyBool(name)
        THEN [outcome |-> "ValueError", mission |-> NoMission]
        ELSE IF \E k \in 1..Len(normalized.tasks) : ~PyBool(normalized.tasks[k].name)
        THEN [outcome |-> "ValueError", mission |-> NoMission]
        ELSE [outcome |-> "mission",
              mission |-> [name |-> name,
                           tasks |-> [k \in 1..Len(normalized.tasks) |->
                                        [name |-> normalized.tasks[k].name,
                                         goal |-> normalized.tasks[k].goal,
                                         task_type |-> normalized.tasks[k].task_type]]]]

\* --- documents handed to parse_content -------------------------------------

StrGo == <<"g","o">>
StrDo == <<"d","o">>
StrG == <<"g">>
StrBlank == <<" ">>
StrDeMo == <<"D","e"," ","M","o">>
StrAb == <<"a","b">>
StrBang == <<"!">>
StrFb == <<"f","b">>
StrSourcePath == <<"d","/","s","r","c",".","y">>

CandGo == VStr(StrGo)
CandDo == VStr(StrDo)
CandBlank == VStr(StrBlank)
CandInt == VInt
CandMapGoal == VDict(<<Entry("goal", VStr(StrG))>>)
CandMapTitled == VDict(<<Entry("title", VStr(<<"t">>)), Entry("prompt", VList(<<CandDo, CandBlank, CandGo>>))>>)
CandMapNoGoal == VDict(<<Entry("name", VStr(<<"t">>))>>)
CandMapEmptyName == VDict(<<Entry("name", VStr(<< >>)), Entry("goal", VStr(StrG))>>)

TaskCandidates ==
    {CandGo, CandDo, CandBlank, CandInt, CandMapGoal, CandMapTitled,
     CandMapNoGoal, CandMapEmptyName}

RECURSIVE SeqsUpTo(_, _)
SeqsUpTo(S, n) ==
    IF n = 0 THEN {<< >>}
    ELSE LET shorter == SeqsUpTo(S, n - 1)
         IN  shorter \cup {Append(xs, x) : xs \in shorter, x \in S}

SomeText == VStr(StrGo)

SomeList == VList(<<CandDo, CandBlank>>)

TasksValues ==
    {VList(<< >>), VDict(<< >>), VStr(<< >>), VStr(StrGo),
     VList(<<CandBlank, CandMapGoal>>), VList(<<CandInt>>),
     VDict(<<Entry("", VStr(StrG))>>),
     VDict(<<Entry("u", VNone), Entry("t", VStr(StrDo))>>)}

Key(sect, key, keykind, values) ==
    [sect |-> sect, key |-> key, keykind |-> keykind, values |-> values]

\* the keys a mapping document may carry, in the order they are written
SourceKeys ==
    << Key("meta", "project_name", "str", {VStr(StrDeMo), VStr(<< >>), VNone}),
       Key("meta", "task", "str", {SomeText, SomeList, VList(<< >>)}),
       Key("meta", "tasks", "str", {SomeText, SomeList}),
       Key("meta", "mission", "str", {SomeText, SomeList}),
       Key("meta", "mission_prompt", "str", {SomeText, SomeList}),
       Key("meta", "goal", "str", {SomeText, SomeList}),
       Key("meta", "prompt", "str", {SomeText, SomeList}),
       Key("root", "meta", "str", {VStr(StrAb), VDict(<< >>)}),
       Key("root", "tasks", "str", TasksValues),
       Key("root", "mission", "str", {SomeText, SomeList, VStr(<< >>)}),
       Key("root", "task", "str", {SomeText, SomeList}),
       Key("root", "prompt", "str", {SomeText, SomeList}),
       Key("root", "prompts", "str", {SomeText, SomeList}),
       Key("root", "instructions", "str", {SomeText, SomeList}),
       Key("root", "instruction", "str", {SomeText, SomeList}),
       Key("root", "steps", "str", {SomeText, SomeList, VList(<< >>)}),
       Key("root", "description", "str", {SomeText, VStr(<< >>)}),
       Key("root", "1", "int", {VStr(StrAb)}) >>

HintKeys ==
    << Key("meta", "project_name", "str",
           {VStr(StrDeMo), VStr(StrAb), VStr(StrBlank), VStr(<< >>)}),
       Key("meta", "mission_id", "str", {VStr(StrDeMo), VStr(StrAb)}),
       Key("meta", "name", "str", {VStr(StrDeMo), VStr(StrBang)}),
       Key("meta", "title", "str", {VStr(StrAb), VStr(StrBlank)}),
       Key("root", "project_name", "str", {VStr(StrDeMo), VStr(StrBlank)}),
       Key("root", "mission", "str", {VStr(StrDeMo), VStr(StrAb)}),
       Key("root", "mission_name", "str", {VStr(StrAb), VStr(StrBang)}),
       Key("root", "name", "str", {VStr(StrDeMo), VStr(StrAb)}),
       Key("root", "title", "str", {VStr(StrDeMo), VStr(StrAb)}) >>

\* the choices of at most n keys with a value each, keys in written order
RECURSIVE Assignments(_, _)
Assignments(keys, n) ==
    IF n = 0 THEN {<< >>}
    ELSE LET fewer == Assignments(keys, n - 1)
         IN  fewer \cup
             UNION { UNION { { Append(a, [idx |-> i, val |-> v]) : v \in keys[i].values } :
                             i \in {j \in 1..Len(keys) : a = << >> \/ j > a[Len(a)].idx} } :
                     a \in fewer }

RECURSIVE SectEntries(_, _, _, _)
SectEntries(keys, a, sect, k) ==
    IF k > Len(a) THEN << >>
    ELSE (IF keys[a[k].idx].sect = sect
          THEN <<[key |-> keys[a[k].idx].key, keykind |-> keys[a[k].idx].keykind,
                  val |-> a[k].val]>>
          ELSE << >>)
         \o SectEntries(keys, a, sect, k + 1)

\* the mapping document that carries the chosen keys
MappingDoc(keys, a, extra) ==
    LET in_meta == SectEntries(keys, a, "meta", 1)
        in_root == SectEntries(keys, a, "root", 1)
    IN  VDict((IF in_meta = << >> THEN << >> ELSE <<Entry("meta", VDict(in_meta))>>)
              \o in_root \o extra)

WellFormed(keys, a) ==
    ~ (/\ \E k \in 1..Len(a) : keys[a[k].idx].sect = "meta"
       /\ \E k \in 1..Len(a) : keys[a[k].idx].sect = "root" /\ keys[a[k].idx].key = "meta")

SourceDocs ==
    { MappingDoc(SourceKeys, a, << >>) :
        a \in {b \in Assignments(SourceKeys, MaxSources) : WellFormed(SourceKeys, b)} }

ListDocs == { VList(xs) : xs \in SeqsUpTo(TaskCandidates, MaxCands) }

ScalarDocs == {VStr(StrGo), VStr(StrBlank), VStr(<< >>), VNone, VInt}

NameDocs ==
    { MappingDoc(HintKeys, a, <<Entry("prompt", VStr(StrGo))>>) :
        a \in Assignments(HintKeys, MaxHints) }

Clock == {1, 2}

ParseInit ==
    /\ \/ /\ pRaw \in SourceDocs \cup ListDocs \cup ScalarDocs
          /\ pSource = VNone
          /\ pFallbackName = VNone
       \/ /\ pRaw \in NameDocs
          /\ pSource \in {VNone, VStr(StrSourcePath)}
          /\ pFallbackName \in {VNone, VStr(StrFb), VStr(StrBlank)}
    /\ pStage = "loaded"
    /\ pNormalized = NoNormalized
    /\ pDiagnostics = NoDiagnostics
    /\ pOutcome = "none"
    /\ pMission = NoMission
    /\ last_diagnostics = NoDiagnostics
    /\ pSeen = << >>

ParseIdle ==
    /\ pRaw = VNone
    /\ pSource = VNone
    /\ pFallbackName = VNone
    /\ pStage = "loaded"
    /\ pNormalized = NoNormalized
    /\ pDiagnostics = NoDiagnostics
    /\ pOutcome = "none"
    /\ pMission = NoMission
    /\ last_diagnostics = NoDiagnostics
    /\ pSeen = << >>

\* parse_content, lines 59-64
Normalize ==
    /\ pStage = "loaded"
    /\ \E now \in Clock :
         LET result == _normalize(pRaw, pSource, pFallbackName, now)
         IN  /\ pNormalized' = result.normalized
             /\ pDiagnostics' = result.diagnostics
             /\ IF result.outcome = "ok"
                THEN pStage' = "normalized" /\ pOutcome' = pOutcome
                ELSE pStage' = "done" /\ pOutcome' = result.outcome
    /\ UNCHANGED <<pRaw, pSource, pFallbackName, pMission, last_diagnostics, pSeen,
                   evars, gvars, rvars, bvars, wvars, fvars>>

\* the mutant keeps one warnings list on the parser object and never clears it
BuildMission_accumulates_warnings ==
    /\ pStage = "normalized"
    /\ LET result == _build_mission(pNormalized)
       IN  /\ pOutcome' = result.outcome
           /\ pMission' = result.mission
           /\ last_diagnostics' =
                  IF result.outcome = "mission"
                  THEN [pDiagnostics EXCEPT !.warnings = last_diagnostics.warnings \o @]
                  ELSE last_diagnostics
    /\ pStage' = "done"
    /\ UNCHANGED <<pRaw, pSource, pFallbackName, pNormalized, pDiagnostics, pSeen,
                   evars, gvars, rvars, bvars, wvars, fvars>>

\* parse_content, lines 66-68
BuildMission ==
    /\ pStage = "normalized"
    /\ LET result == _build_mission(pNormalized)
       IN  /\ pOutcome' = result.outcome
           /\ pMission' = result.mission
           /\ last_diagnostics' = IF result.outcome = "mission"
                                  THEN pDiagnostics ELSE last_diagnostics
    /\ pStage' = "done"
    /\ UNCHANGED <<pRaw, pSource, pFallbackName, pNormalized, pDiagnostics, pSeen,
                   evars, gvars, rvars, bvars, wvars, fvars>>

ParseNext == Normalize \/ BuildMission

\* --- several parse_content calls on one parser object ----------------------

\* what a finished call took and what it left behind
Call(raw, source, fallback_name, outcome, left_behind) ==
    [raw |-> raw, source |-> source, fallback_name |-> fallback_name,
     outcome |-> outcome, diagnostics |-> left_behind]

\* mapping documents with one key, and with a metadata name and a tasks section
ReparseDocs ==
    { MappingDoc(SourceKeys, a, << >>) : a \in Assignments(SourceKeys, 1) }
    \cup { MappingDoc(SourceKeys, <<[idx |-> 1, val |-> VStr(StrDeMo)], [idx |-> 9, val |-> v]>>, << >>) :
             v \in TasksValues }
    \cup { VList(<<c>>) : c \in TaskCandidates }
    \cup ScalarDocs

\* documents parsed in between: a strict one, a root list and one that fails
OtherDocs ==
    { VDict(<<Entry("meta", VDict(<<Entry("project_name", VStr(StrAb))>>)),
              Entry("tasks", VList(<<CandDo>>))>>),
      VList(<<CandGo, CandInt>>),
      VInt }

ReparseInit ==
    /\ pRaw \in ReparseDocs
    /\ pSource \in {VNone, VStr(StrSourcePath)}
    /\ pFallbackName = VNone
    /\ pStage = "loaded"
    /\ pNormalized = NoNormalized
    /\ pDiagnostics = NoDiagnostics
    /\ pOutcome = "none"
    /\ pMission = NoMission
    /\ last_diagnostics = NoDiagnostics
    /\ pSeen = << >>

\* the caller calls parse_content again on the same parser object: with the
\* content of the call that just ended, with the content of the first call,
\* or with another document
ParseAgain ==
    /\ pStage = "done"
    /\ Len(pSeen) < MaxReparses
    /\ pSeen' = Append(pSeen, Call(pRaw, pSource, pFallbackName, pOutcome, last_diagnostics))
    /\ \/ UNCHANGED <<pRaw, pSource, pFallbackName>>
       \/ /\ pSeen # << >>
          /\ pRaw' = pSeen[1].raw
          /\ pSource' = pSeen[1].source
          /\ pFallbackName' = pSeen[1].fallback_name
       \/ /\ pRaw' \in OtherDocs
          /\ pSource' = VNone
          /\ pFallbackName' = VStr(StrFb)
    /\ pStage' = "loaded"
    /\ pNormalized' = NoNormalized
    /\ pDiagnostics' = NoDiagnostics
    /\ pOutcome' = "none"
    /\ pMission' = NoMission
    /\ UNCHANGED <<last_diagnostics, evars, gvars, rvars, bvars, wvars, fvars>>

ReparseNext == ParseNext \/ ParseAgain

\* --- single function calls ---------------------------------------------------

SlugChars == {"a", "B", "1", " ", "_", "!"}

SlugInputs == {VNone} \cup { VStr(xs) : xs \in SeqsUpTo(SlugChars, MaxSlugLen) }

SlugInit ==
    /\ sValue \in SlugInputs
    /\ sSlug = << >>
    /\ sAgain = << >>
    /\ sCalls = 0

SlugIdle ==
    /\ sValue = VNone
    /\ sSlug = << >>
    /\ sAgain = << >>
    /\ sCalls = 0


\* slug = parser._slugify(value)
Slugify ==
    /\ sCalls = 0
    /\ sSlug' = slugify(sValue)
    /\ sCalls' = 1
    /\ UNCHANGED <<sValue, sAgain, dvars, hvars, evars, gvars, rvars, pvars, bvars, wvars>>

\* parser._slugify(slug)
SlugifyAgain ==
    /\ sCalls = 1
    /\ sAgain' = slugify(VStr(sSlug))
    /\ sCalls' = 2
    /\ UNCHANGED <<sValue, sSlug, dvars, hvars, evars, gvars, rvars, pvars, bvars, wvars>>

SlugNext == Slugify \/ SlugifyAgain

\* --- TaskLogicHandler.execute (domain/services/task_logic_handler.py) --------

NameApplyWrites == <<"t","a","s","k","_","a","p","p","l","y","_","w","r","i","t","e","s">>
NameGatherOverview == <<"t","a","s","k","_","g","a","t","h","e","r","_","o","v","e","r","v","i","e","w">>
NameGenerateReport == <<"t","a","s","k","_","g","e","n","e","r","a","t","e","_","r","e","p","o","r","t">>
NameApplyWritesMixed == <<"T","a","s","k","_","A","p","p","l","y","_","W","r","i","t","e","s">>
NameOther == <<"t","1">>

TypeGeneric == <<"g","e","n","e","r","i","c">>
TypeRead == <<"r","e","a","d">>
TypeGatherOverview == <<"g","a","t","h","e","r","_","o","v","e","r","v","i","e","w">>
TypeReport == <<"r","e","p","o","r","t">>
TypeGenerateReport == <<"g","e","n","e","r","a","t","e","_","r","e","p","o","r","t">>
TypeAnalysis == <<"a","n","a","l","y","s","i","s">>
TypeAnalysisMixed == <<"A","n","a","l","y","s","i","s">>
TypeReportGeneration == <<"r","e","p","o","r","t","_","g","e","n","e","r","a","t","i","o","n">>
TypeTreeScan == <<"t","r","e","e","_","s","c","a","n">>
TypeTree == <<"t","r","e","e">>
TypeTaskGatherDocuments == <<"t","a","s","k","_","g","a","t","h","e","r","_","d","o","c","u","m","e","n","t","s">>
TypeGatherDocuments == <<"g","a","t","h","e","r","_","d","o","c","u","m","e","n","t","s">>
TypeApplyWrites == <<"a","p","p","l","y","_","w","r","i","t","e","s">>
TypeSetup == <<"s","e","t","u","p">>
TypeUnknown == <<"d","e","p","l","o","y">>
TypeTaskApplyWrites == NameApplyWrites

\* the branch taken and whether _build_execution_context was called
Branch(handler, context) == [handler |-> handler, context |-> context]

NotDispatched == Branch("none", FALSE)

\* execute, lines 48-78; None and the empty string are both << >>
execute(name, task_type) ==
    LET ttype == StrLower(IF task_type = << >> THEN TypeGeneric ELSE task_type)
        task_name == StrLower(name)
    IN  IF task_name = NameGatherOverview \/ ttype \in {TypeRead, TypeGatherOverview}
        THEN Branch("task_gather_overview", TRUE)
        ELSE IF task_name = NameGenerateReport \/ ttype \in {TypeReport, TypeGenerateReport}
        THEN Branch("task_generate_report", TRUE)
        ELSE IF ttype = TypeAnalysis THEN Branch("_analyze_workspace", FALSE)
        ELSE IF ttype = TypeReportGeneration THEN Branch("_generate_markdown", FALSE)
        ELSE IF ttype \in {TypeTreeScan, TypeTree} THEN Branch("task_tree_scan", TRUE)
        ELSE IF ttype \in {TypeTaskGatherDocuments, TypeGatherDocuments}
        THEN Branch("task_gather_documents", TRUE)
        ELSE IF task_name = NameApplyWrites \/ ttype \in {TypeTaskApplyWrites, TypeApplyWrites}
        THEN Branch("task_apply_writes", TRUE)
        ELSE IF ttype = TypeSetup THEN Branch("[OK]", FALSE)
        ELSE Branch("[INFO]", FALSE)

TaskNames ==
    {NameApplyWrites, NameApplyWritesMixed, NameGatherOverview, NameGenerateReport, NameOther}

TaskTypes ==
    {<< >>, TypeGeneric, TypeRead, TypeGatherOverview, TypeReport, TypeGenerateReport,
     TypeAnalysis, TypeAnalysisMixed, TypeReportGeneration, TypeTreeScan, TypeTree,
     TypeTaskGatherDocuments, TypeGatherDocuments, TypeTaskApplyWrites, TypeApplyWrites,
     TypeSetup, TypeUnknown}

DispatchInit ==
    /\ task_name_arg \in TaskNames
    /\ task_type_arg \in TaskTypes
    /\ dispatched = NotDispatched

DispatchIdle ==
    /\ task_name_arg = NameOther
    /\ task_type_arg = << >>
    /\ dispatched = NotDispatched

Execute ==
    /\ dispatched = NotDispatched
    /\ dispatched' = execute(task_name_arg, task_type_arg)
    /\ UNCHANGED <<task_name_arg, task_type_arg, svars, hvars, evars, gvars, rvars, pvars, bvars, wvars>>

DispatchNext == Execute

\* ------------------------------------------------------------------------
\* ContextBridge registry (core/context_bridge.py) and WorkspaceStore
\* (core/workspace_store.py)
\*
\* A dict is a record whose absent keys hold VNone, "absent" or 0; the
\* empty dict has every key absent.
\* ------------------------------------------------------------------------
PathW == <<"/","w">>
PathRel == <<"w","s">>
Cwd == <<"/","c">>

IsAbsolute(p) == p # << >> /\ p[1] = "/"

JoinPath(base, p) == base \o <<"/">> \o p

\* str(Path(path).resolve()) for paths without '.', '..' or links
ResolvePath(path) == IF IsAbsolute(path) THEN path ELSE JoinPath(Cwd, path)

\* a pathlib.Path object
VPath(s) == [kind |-> "path", str |-> s, items |-> << >>]

StrNone == <<"N","o","n","e">>

\* str(value)
PyStr(v) == IF v.kind = "none" THEN VStr(StrNone) ELSE VStr(v.str)

OutputRecord(destination, status, format, updated_at) ==
    [destination |-> destination, status |-> status, format |-> format,
     updated_at |-> updated_at]

EmptyDict == OutputRecord(VNone, "absent", "absent", 0)

DictTruthy(d) == d # EmptyDict

DiagnosticEntry(source, timestamp, payload) ==
    [source |-> source, timestamp |-> timestamp, payload |-> payload]

Payload(event, index) == [event |-> event, index |-> index]

BridgeState ==
    [outputs |-> _outputs, diagnostics |-> _diagnostics,
     mission_meta |-> _mission_meta, mission_context |-> _mission_context,
     mission_name |-> _mission_name, current_workspace |-> _current_workspace,
     store |-> store]

\* WorkspaceStore.set_workspace: the history keeps one entry per path,
\* newest first, ten at most
store_set_workspace(data, path, auto_run_arg) ==
    LET history == <<path>> \o SelectSeq(data.history, LAMBDA h : h # path)
    IN  [last_workspace |-> VStr(path),
         history |-> SubSeq(history, 1, IF Len(history) < 10 THEN Len(history) ELSE 10),
         auto_run |-> IF auto_run_arg = "None" THEN data.auto_run ELSE auto_run_arg]

set_workspace(b, path, auto_run_arg) ==
    IF path = << >> THEN b
    ELSE LET normalized == ResolvePath(path)
         IN  [b EXCEPT !.current_workspace = VStr(normalized),
                       !.store = store_set_workspace(b.store, normalized, auto_run_arg)]

get_workspace(b) == b.current_workspace

_ensure_iterable_outputs(value) ==
    IF value.kind = "none" THEN << >>
    ELSE IF value.kind = "list" THEN value.items
    ELSE <<value>>

_normalise_output_entry(entry) ==
    IF entry.kind = "none" THEN EmptyDict
    ELSE IF entry.kind = "dict"
         THEN OutputRecord(IF entry.destination.kind = "absent" THEN VNone
                           ELSE PyStr(entry.destination),
                           IF entry.status = "absent" THEN "declared" ELSE entry.status,
                           "absent", 0)
    ELSE IF entry.kind = "str"
         THEN OutputRecord(VStr(entry.str), "declared", "absent", 0)
    ELSE OutputRecord(PyStr(entry), "declared", "absent", 0)

RECURSIVE SyncLoop(_, _, _)
SyncLoop(entries, k, outputs) ==
    IF k > Len(entries) THEN outputs
    ELSE LET normalised == _normalise_output_entry(entries[k])
         IN  SyncLoop(entries, k + 1,
                      IF DictTruthy(normalised) THEN Append(outputs, normalised)
                      ELSE outputs)

sync_outputs(b, outputs_config) ==
    [b EXCEPT !.outputs = SyncLoop(_ensure_iterable_outputs(outputs_config), 1, << >>)]

RECURSIVE FindRecord(_, _, _)
FindRecord(outputs, normalized_destination, k) ==
    IF k > Len(outputs) THEN 0
    ELSE IF outputs[k].destination = normalized_destination THEN k
    ELSE FindRecord(outputs, normalized_destination, k + 1)

UpdateRecord(record, kwargs, now) ==
    [record EXCEPT !.format = IF kwargs.format = "absent" THEN @ ELSE kwargs.format,
                   !.updated_at = IF @ = 0 THEN now ELSE @]

register_output_always_appends(outputs, destination, kwargs, now) ==
    LET status == IF kwargs.status = "absent" THEN "created" ELSE kwargs.status
    IN  Append(outputs,
               UpdateRecord(OutputRecord(PyStr(destination), status, "absent", 0),
                            kwargs, now))

register_output(outputs, destination, kwargs, now) ==
    LET normalized_destination == PyStr(destination)
        k == FindRecord(outputs, normalized_destination, 1)
        status == IF kwargs.status = "absent" THEN "created" ELSE kwargs.status
    IN  IF k = 0
        THEN Append(outputs,
                    UpdateRecord(OutputRecord(normalized_destination, status, "absent", 0),
                                 kwargs, now))
        ELSE [outputs EXCEPT ![k] = UpdateRecord([@ EXCEPT !.status = status],
                                                 kwargs, now)]

publish_diagnostic(b, source, payload, now) ==
    [b EXCEPT !.diagnostics = Append(@, DiagnosticEntry(source, now, payload))]

attach_mission(b, mission, now) ==
    LET named == [b EXCEPT !.mission_name = mission.name,
                           !.mission_meta = mission.meta,
                           !.mission_context = mission.context]
        workspace_hint == IF mission.context.workspace # << >>
                          THEN mission.context.workspace
                          ELSE mission.context.workspace_path
        placed == IF workspace_hint # << >>
                  THEN set_workspace(named, workspace_hint, mission.context.auto_run)
                  ELSE named
        told == IF mission.flex_parser
                THEN publish_diagnostic(placed, "flex_parser", Payload("flex_parser", 0), now)
                ELSE placed
    IN  sync_outputs(told, mission.outputs)

NoMeta == [mode |-> << >>]

NoContext == [mode |-> << >>, workspace |-> << >>, workspace_path |-> << >>,
              auto_run |-> "None"]

reset_forgets_workspace(b) ==
    [b EXCEPT !.outputs = << >>, !.diagnostics = << >>, !.mission_meta = NoMeta,
              !.mission_context = NoContext, !.mission_name = VNone,
              !.current_workspace = VNone]

reset(b) ==
    [b EXCEPT !.outputs = << >>, !.diagnostics = << >>, !.mission_meta = NoMeta,
              !.mission_context = NoContext, !.mission_name = VNone]

\* execute_mission, lines 50-59, as far as the registry sees it
execute_mission_start(b, mission, now) ==
    publish_diagnostic(attach_mission(reset(b), mission, now),
                       "executor.mission", Payload("started", 0), now)

\* --- inputs ------------------------------------------------------------
DestA == <<"a",".","m","d">>
DestB == <<"b",".","m","d">>

DictEntry(destination, status) ==
    [kind |-> "dict", str |-> << >>, items |-> << >>,
     destination |-> destination, status |-> status]

AbsentKey == [kind |-> "absent", str |-> << >>, items |-> << >>]

DeclaredEntries ==
    {VNone, VStr(DestA), VPath(DestB), DictEntry(VStr(DestA), "planned"),
     DictEntry(AbsentKey, "absent")}

OutputsConfigs ==
    {VNone, VStr(DestA), VList(<<VStr(DestA), DictEntry(VStr(DestA), "planned")>>),
     VList(<<DictEntry(AbsentKey, "absent"), VPath(DestB), VNone>>)}

Destinations == {VStr(DestA), VPath(DestA), VStr(DestB)}

Metadata == [status : {"absent", "failed"}, format : {"absent", "markdown"}]

BridgeMission(name, mode, workspace, auto_run_arg, flex_parser, outputs) ==
    [name |-> VStr(name),
     meta |-> [mode |-> mode],
     context |-> [mode |-> << >>, workspace |-> workspace, workspace_path |-> << >>,
                  auto_run |-> auto_run_arg],
     flex_parser |-> flex_parser,
     outputs |-> outputs]

BridgeMissions ==
    { BridgeMission(StrGo, ModeReadOnly, << >>, "None", TRUE, VNone),
      BridgeMission(StrDo, << >>, PathRel, "True", FALSE, VStr(DestA)),
      BridgeMission(StrDo, << >>, << >>, "None", FALSE,
                    VList(<<VStr(DestB), VStr(DestB)>>)) }

NoStore == [last_workspace |-> VNone, history |-> << >>, auto_run |-> "False"]

NoOperation == [op |-> "none", before |-> << >>, destination |-> VNone,
                metadata |-> [status |-> "absent", format |-> "absent"]]

Operation(op, before, destination, kwargs) ==
    [op |-> op, before |-> before, destination |-> destination, metadata |-> kwargs]

\* ContextBridge.__init__ over a store that was or was not used before
BridgeInit ==
    /\ store \in {NoStore, store_set_workspace(NoStore, PathW, "None")}
    /\ _current_workspace = store.last_workspace
    /\ _outputs = << >>
    /\ _diagnostics = << >>
    /\ _mission_meta = NoMeta
    /\ _mission_context = NoContext
    /\ _mission_name = VNone
    /\ bOps = 0
    /\ bLast = NoOperation

BridgeIdle ==
    /\ store = NoStore
    /\ _current_workspace = VNone
    /\ _outputs = << >>
    /\ _diagnostics = << >>
    /\ _mission_meta = NoMeta
    /\ _mission_context = NoContext
    /\ _mission_name = VNone
    /\ bOps = 0
    /\ bLast = NoOperation

SetBridge(b) ==
    /\ _outputs' = b.outputs
    /\ _diagnostics' = b.diagnostics
    /\ _mission_meta' = b.mission_meta
    /\ _mission_context' = b.mission_context
    /\ _mission_name' = b.mission_name
    /\ _current_workspace' = b.current_workspace
    /\ store' = b.store

BridgeStep(op, b, destination, kwargs) ==
    /\ bOps < MaxOps
    /\ bOps' = bOps + 1
    /\ bLast' = Operation(op, BridgeState, destination, kwargs)
    /\ SetBridge(b)
    /\ UNCHANGED <<evars, gvars, rvars, pvars, wvars, fvars>>

SetWorkspace ==
    \E path \in {<< >>, PathW, PathRel}, auto \in {"None", "True"} :
        BridgeStep("set_workspace", set_workspace(BridgeState, path, auto),
                   VNone, NoOperation.metadata)

AttachMission ==
    \E mission \in BridgeMissions :
        BridgeStep("attach_mission", attach_mission(BridgeState, mission, bOps + 1),
                   VNone, NoOperation.metadata)

SyncOutputs ==
    \E outputs_config \in OutputsConfigs :
        BridgeStep("sync_outputs", sync_outputs(BridgeState, outputs_config),
                   VNone, NoOperation.metadata)

RegisterOutput ==
    \E destination \in Destinations, kwargs \in Metadata :
        BridgeStep("register_output",
                   [BridgeState EXCEPT
                       !.outputs = register_output(@, destination, kwargs, bOps + 1)],
                   destination, kwargs)

PublishDiagnostic ==
    \E source \in {"executor.task", "task_apply_writes"} :
        BridgeStep("publish_diagnostic",
                   publish_diagnostic(BridgeState, source, Payload("note", 0), bOps + 1),
                   VNone, NoOperation.metadata)

Reset == BridgeStep("reset", reset(BridgeState), VNone, NoOperation.metadata)

ExecuteMissionStart ==
    \E mission \in BridgeMissions :
        BridgeStep("execute_mission",
                   execute_mission_start(BridgeState, mission, bOps + 1),
                   VNone, NoOperation.metadata)

BridgeNext ==
    \/ SetWorkspace
    \/ AttachMission
    \/ SyncOutputs
    \/ RegisterOutput
    \/ PublishDiagnostic
    \/ Reset
    \/ ExecuteMissionStart

\* ------------------------------------------------------------------------
\* task_apply_writes (domain/services/task_logic_handler.py)
\*
\* The file system maps the paths the operating system opens to a file's
\* existence and text.  The workspace is the working directory ('.', the
\* value _build_execution_context gives without a workspace hint), and no
\* path holds '.', '..' or a ${VAR} placeholder.
\* ------------------------------------------------------------------------
workspace_path == Cwd

Absent == [exists |-> FALSE, text |-> << >>]

FileOf(text) == [exists |-> TRUE, text |-> text]

Stat(fs, path) ==
    IF ResolvePath(path) \in DOMAIN fs THEN fs[ResolvePath(path)] ELSE Absent

WriteFile(fs, path, text) ==
    [q \in DOMAIN fs \cup {ResolvePath(path)} |->
        IF q = ResolvePath(path) THEN FileOf(text) ELSE fs[q]]

VBool(b) == [kind |-> "bool", str |-> << >>, items |-> << >>, bool |-> b]

RECURSIVE PickStringFrom(_, _)
PickStringFrom(candidates, k) ==
    IF k > Len(candidates) THEN << >>
    ELSE IF candidates[k].kind = "str" /\ StrStrip(candidates[k].str) # << >>
         THEN StrStrip(candidates[k].str)
    ELSE PickStringFrom(candidates, k + 1)

\* None is the empty sequence: a picked string is never empty
_pick_string(candidates) == PickStringFrom(candidates, 1)

_resolve_workspace_path(candidate) ==
    IF candidate.kind # "str" THEN [error |-> "TypeError", path |-> << >>]
    ELSE IF candidate.str = << >> THEN [error |-> "ValueError", path |-> << >>]
    ELSE [error |-> "none",
          path |-> IF IsAbsolute(candidate.str) THEN candidate.str
                   ELSE JoinPath(workspace_path, candidate.str)]

\* path_obj.relative_to(workspace_path).as_posix(), str(path_obj) outside it
display_path_of(target_path) ==
    LET n == Len(workspace_path) + 1
    IN  IF Len(target_path) > n /\ SubSeq(target_path, 1, n) = workspace_path \o <<"/">>
        THEN SubSeq(target_path, n + 1, Len(target_path))
        ELSE target_path

_read_text(fs, path_obj, patterns) ==
    IF check_path(path_obj, patterns) # "ok"
    THEN [error |-> "GuardrailError", text |-> << >>]
    ELSE IF ~Stat(fs, path_obj).exists
         THEN [error |-> "FileNotFoundError", text |-> << >>]
    ELSE [error |-> "none", text |-> Stat(fs, path_obj).text]

_safe_write_text(fs, path_obj, content, append, patterns) ==
    IF check_path(path_obj, patterns) # "ok"
    THEN [error |-> "GuardrailError", files |-> fs]
    ELSE [error |-> "none",
          files |-> WriteFile(fs, path_obj,
                              IF append THEN Stat(fs, path_obj).text \o content
                              ELSE content)]

RECURSIVE JoinLines(_, _)
JoinLines(parts, k) ==
    IF k > Len(parts) THEN << >>
    ELSE IF k = Len(parts) THEN parts[k].str
    ELSE parts[k].str \o <<"\n">> \o JoinLines(parts, k + 1)

_stringify_content(value) ==
    IF value.kind = "none" THEN VNone
    ELSE IF value.kind = "list" THEN VStr(JoinLines(value.items, 1))
    ELSE VStr(value.str)

TruthyWords == {<<"1">>, <<"t","r","u","e">>, <<"y","e","s">>, <<"o","n">>}

_to_bool_only_bools(value) == value.kind = "bool" /\ value.bool

_to_bool(value) ==
    IF value.kind = "bool" THEN value.bool
    ELSE IF value.kind = "str" THEN StrLower(StrStrip(value.str)) \in TruthyWords
    ELSE IF value.kind = "int" THEN TRUE
    ELSE FALSE

\* 0-based index of the first occurrence of sub at or after start, -1 if none
RECURSIVE StrFind(_, _, _)
StrFind(s, sub, start) ==
    IF start + Len(sub) > Len(s) THEN -1
    ELSE IF SubSeq(s, start + 1, start + Len(sub)) = sub THEN start
    ELSE StrFind(s, sub, start + 1)

Prefix(s, n) == SubSeq(s, 1, n)

Suffix(s, n) == SubSeq(s, n + 1, Len(s))

ActOverwrite == <<"o","v","e","r","w","r","i","t","e">>
ActAppend == <<"a","p","p","e","n","d">>
ActInsertBefore == <<"i","n","s","e","r","t","_","b","e","f","o","r","e">>
ActInsertAfter == <<"i","n","s","e","r","t","_","a","f","t","e","r">>
ActReplaceBlock == <<"r","e","p","l","a","c","e","_","b","l","o","c","k">>

TextResult(error, text) == [error |-> error, text |-> text]

\* lines 1198-1215
replace_block_text(existing_text, content_text, marker_value, start_marker, end_marker) ==
    IF content_text.kind = "none" THEN TextResult("Missing content for replace_block.", << >>)
    ELSE IF start_marker # << >> /\ end_marker # << >>
         THEN LET start_index == StrFind(existing_text, start_marker, 0)
                  content_start == start_index + Len(start_marker)
                  end_index == StrFind(existing_text, end_marker, content_start)
              IN  IF start_index = -1 THEN TextResult("Start marker not found.", << >>)
                  ELSE IF end_index = -1 THEN TextResult("End marker not found.", << >>)
                  ELSE TextResult("none", Prefix(existing_text, content_start)
                                          \o content_text.str
                                          \o Suffix(existing_text, end_index))
    ELSE IF marker_value # << >>
         THEN LET at == StrFind(existing_text, marker_value, 0)
              IN  IF at = -1 THEN TextResult("Marker not found.", << >>)
                  ELSE TextResult("none", Prefix(existing_text, at)
                                          \o content_text.str
                                          \o Suffix(existing_text, at + Len(marker_value)))
    ELSE TextResult("Selectors must define start/end or marker for replace_block.", << >>)

insert_text_at_end(existing_text, content_text, marker_value, action) ==
    IF content_text.kind = "none" THEN TextResult("Missing content for insertion.", << >>)
    ELSE LET marker_index == IF marker_value = << >> THEN -1
                             ELSE StrFind(existing_text, marker_value, 0)
         IN  IF marker_index = -1
             THEN TextResult("none", existing_text \o content_text.str)
             ELSE IF action = ActInsertBefore
                  THEN TextResult("none", Prefix(existing_text, marker_index)
                                          \o content_text.str
                                          \o Suffix(existing_text, marker_index))
             ELSE TextResult("none", Prefix(existing_text, marker_index + Len(marker_value))
                                     \o content_text.str
                                     \o Suffix(existing_text, marker_index + Len(marker_value)))

\* lines 1226-1237
insert_text(existing_text, content_text, marker_value, action) ==
    IF content_text.kind = "none" THEN TextResult("Missing content for insertion.", << >>)
    ELSE IF marker_value = << >>
         THEN TextResult("Selectors must provide a marker for insertion.", << >>)
    ELSE LET marker_index == StrFind(existing_text, marker_value, 0)
         IN  IF marker_index = -1 THEN TextResult("Marker not found.", << >>)
             ELSE IF action = ActInsertBefore
                  THEN TextResult("none", Prefix(existing_text, marker_index)
                                          \o content_text.str
                                          \o Suffix(existing_text, marker_index))
             ELSE LET insert_position == marker_index + Len(marker_value)
                  IN  TextResult("none", Prefix(existing_text, insert_position)
                                         \o content_text.str
                                         \o Suffix(existing_text, insert_position))

Outcome(status, message, fs) == [status |-> status, message |-> message, files |-> fs]

\* the dry_run branch or the write that ends every action
write_or_skip(fs, target_path, text, append, dry, patterns) ==
    IF dry THEN Outcome("dry_run", "Dry-run: skipped.", fs)
    ELSE LET written == _safe_write_text(fs, target_path, text, append, patterns)
         IN  IF written.error # "none" THEN Outcome("error", written.error, fs)
             ELSE Outcome("applied", "completed.", written.files)

NoSelectors ==
    [before |-> VNone, after |-> VNone, marker |-> VNone, target |-> VNone,
     start |-> VNone, end |-> VNone]

\* lines 1156-1264: the try block over one action, its exceptions caught
apply_action(fs, action, target_path, content_text, selectors, dry, patterns) ==
    IF action = ActOverwrite
    THEN IF content_text.kind = "none"
         THEN Outcome("error", "Missing content for overwrite.", fs)
         ELSE write_or_skip(fs, target_path, content_text.str, FALSE, dry, patterns)
    ELSE IF action = ActAppend
    THEN IF content_text.kind = "none"
         THEN Outcome("error", "Missing content for append.", fs)
         ELSE write_or_skip(fs, target_path, content_text.str, TRUE, dry, patterns)
    ELSE IF action \in {ActInsertBefore, ActInsertAfter, ActReplaceBlock}
    THEN LET existing == _read_text(fs, target_path, patterns)
             marker_value ==
                 _pick_string(<<IF action = ActInsertBefore THEN selectors.before ELSE VNone,
                                IF action = ActInsertAfter THEN selectors.after ELSE VNone,
                                selectors.marker, selectors.target>>)
             start_marker == _pick_string(<<selectors.start>>)
             end_marker == _pick_string(<<selectors.end>>)
             new_text ==
                 IF action = ActReplaceBlock
                 THEN replace_block_text(existing.text, content_text, marker_value,
                                         start_marker, end_marker)
                 ELSE insert_text(existing.text, content_text, marker_value, action)
         IN  IF existing.error = "FileNotFoundError"
             THEN Outcome("error", "Target file does not exist.", fs)
             ELSE IF existing.error # "none" THEN Outcome("error", existing.error, fs)
             ELSE IF new_text.error # "none" THEN Outcome("error", new_text.error, fs)
             ELSE write_or_skip(fs, target_path, new_text.text, FALSE, dry, patterns)
    ELSE Outcome("error", "Unsupported action.", fs)

LedgerEntry(index, status, file, action, message) ==
    [index |-> index, status |-> status, file |-> file, action |-> action,
     message |-> message]

Processed(entry, fs) == [entry |-> entry, files |-> fs]

\* lines 1039-1276: one turn of the loop over the plan's changes
process_change(fs, index, change, dry, patterns) ==
    IF change.kind # "dict"
    THEN Processed(LedgerEntry(index, "error", << >>, << >>,
                               "Change entry must be a mapping."), fs)
    ELSE
    LET action == IF PyBool(change.action) THEN StrLower(StrStrip(change.action.str))
                  ELSE << >>
        target == _resolve_workspace_path(change.file)
        display_path == display_path_of(target.path)
        source_ref == change.source
        source_path == _resolve_workspace_path(source_ref)
        source == IF source_path.error # "none" THEN TextResult(source_path.error, << >>)
                  ELSE _read_text(fs, source_path.path, patterns)
        stringified == _stringify_content(change.content)
        content_text == IF PyBool(source_ref) /\ stringified.kind = "none"
                        THEN VStr(source.text) ELSE stringified
        done == apply_action(fs, action, target.path, content_text, change.selectors,
                             dry, patterns)
    IN  IF action = << >>
        THEN Processed(LedgerEntry(index, "error", << >>, << >>, "Missing action."), fs)
        ELSE IF ~PyBool(change.file)
        THEN Processed(LedgerEntry(index, "error", << >>, << >>, "Missing file path."), fs)
        ELSE IF target.error # "none"
        THEN Processed(LedgerEntry(index, "error", << >>, << >>, target.error), fs)
        ELSE IF PyBool(source_ref) /\ source.error # "none"
        THEN Processed(LedgerEntry(index, "error", display_path, action,
                                   "Source read failed"), fs)
        ELSE Processed(LedgerEntry(index, done.status, display_path, action,
                                   done.message), done.files)

ReportDefault ==
    <<"r","e","p","o","r","t","s","/","a","p","p","l","y","_","w","r","i","t","e","s",
      "_","r","e","p","o","r","t",".","m","d">>

\* lines 990-1017 with no destination configured
report_path == ReportDefault

\* lines 1280-1305: the Markdown log, one line per ledger entry
ReportText(ledger) == <<"#">> \o [k \in 1..Len(ledger) |-> "-"]

Summary(dry, applied, simulated, errors) ==
    [dry_run |-> dry, applied |-> applied, dry_run_changes |-> simulated,
     errors |-> errors, report_path |-> report_path]

NoSummary == Summary(FALSE, 0, 0, << >>)

NoPlan == [kind |-> "none", dry_run |-> VNone, changes |-> VNone]

Plan(plan_dry_run, changes) ==
    [kind |-> "dict", dry_run |-> plan_dry_run, changes |-> changes]

\* --- inputs ------------------------------------------------------------
FileA == <<"a",".","t","x","t">>
FileB == <<"b",".","t","x","t">>
FileSecret == <<"p","r","i","v","a","t","e","/","s">>

TextA == <<"s","m","e">>
TextX == <<"x">>
TextM == <<"m">>
TextK == <<"k">>

PatAnyPrivate == <<"*","/","p","r","i","v","a","t","e","/","*">>

Change(action, file, content, source, selectors) ==
    [kind |-> "dict", str |-> << >>, items |-> << >>,
     action |-> action, file |-> file, content |-> content, source |-> source,
     selectors |-> selectors]

Sel(key, value) == [NoSelectors EXCEPT ![key] = VStr(value)]

Changes ==
    { Change(VStr(ActOverwrite), VStr(FileA), VStr(TextX), VNone, NoSelectors),
      Change(VStr(<<" ","O","v","e","r","w","r","i","t","e">>), VStr(FileB), VStr(TextM),
             VNone, NoSelectors),
      Change(VStr(ActAppend), VStr(FileB), VList(<<VStr(TextX), VStr(TextK)>>), VNone,
             NoSelectors),
      Change(VStr(ActInsertBefore), VStr(FileA), VStr(TextX), VNone, Sel("before", TextM)),
      Change(VStr(ActInsertAfter), VStr(FileB), VStr(TextX), VNone, Sel("after", TextM)),
      Change(VStr(ActInsertAfter), VStr(FileA), VStr(TextX), VNone, Sel("marker", TextK)),
      Change(VStr(ActReplaceBlock), VStr(FileA), VStr(TextX), VNone,
             [NoSelectors EXCEPT !.start = VStr(<<"s">>), !.end = VStr(<<"e">>)]),
      Change(VStr(ActReplaceBlock), VStr(FileA), VStr(<< >>), VNone, Sel("marker", TextM)),
      Change(VStr(ActReplaceBlock), VStr(FileA), VStr(TextX), VNone, NoSelectors),
      Change(VStr(ActOverwrite), VStr(FileSecret), VStr(TextX), VNone, NoSelectors),
      Change(VStr(<<"d","e","l","e","t","e">>), VStr(FileA), VNone, VNone, NoSelectors),
      Change(VStr(ActOverwrite), VStr(ReportDefault), VStr(TextX), VNone, NoSelectors),
      Change(VStr(ActAppend), VStr(FileA), VNone, VStr(FileB), NoSelectors),
      Change(VStr(ActAppend), VNone, VStr(TextX), VNone, NoSelectors),
      VStr(TextX) }

Plans ==
    {NoPlan, Plan(VNone, VStr(TextX))}
    \cup { Plan(VNone, VList(cs)) : cs \in SeqsUpTo(Changes, MaxChanges) }

DryRunRequests == {<<VNone, VNone>>, <<VBool(FALSE), VStr(<<"Y","e","s">>)>>}

\* a.txt and private/s exist, b.txt and the report do not
FileSystems ==
    { [p \in {JoinPath(Cwd, FileA), JoinPath(Cwd, FileSecret)} |->
          IF p = JoinPath(Cwd, FileSecret) THEN FileOf(TextK) ELSE FileOf(TextA)] }

WritesInit ==
    /\ files \in FileSystems
    /\ files0 = files
    /\ filesBefore = files
    /\ \E request \in DryRunRequests, plan \in Plans :
         /\ params_dry_run = request[1]
         /\ plan_data = [plan EXCEPT !.dry_run = request[2]]
    /\ wStage = "called"
    /\ dry_run = FALSE
    /\ change_results = << >>
    /\ applied_changes = 0
    /\ dry_run_changes = 0
    /\ error_messages = << >>
    /\ summary = NoSummary
    /\ wReturn = "none"

WritesIdle ==
    /\ files = [p \in {} |-> Absent]
    /\ files0 = files
    /\ filesBefore = files
    /\ params_dry_run = VNone
    /\ plan_data = NoPlan
    /\ wStage = "called"
    /\ dry_run = FALSE
    /\ change_results = << >>
    /\ applied_changes = 0
    /\ dry_run_changes = 0
    /\ error_messages = << >>
    /\ summary = NoSummary
    /\ wReturn = "none"

RECURSIVE PublishAll(_, _, _)
PublishAll(b, payloads, k) ==
    IF k > Len(payloads) THEN b
    ELSE PublishAll(publish_diagnostic(b, "task_apply_writes", payloads[k],
                                       Len(b.diagnostics) + 1),
                    payloads, k + 1)

Publish(payloads) ==
    /\ _diagnostics' = PublishAll(BridgeState, payloads, 1).diagnostics
    /\ UNCHANGED <<_mission_meta, _mission_context, _mission_name, _current_workspace,
                   store, bOps, bLast>>

\* lines 854-1037: the plan is loaded and checked, 'started' is published
LoadPlan ==
    /\ wStage = "called"
    /\ IF plan_data.kind # "dict" \/ (PyBool(plan_data.changes) /\ plan_data.changes.kind # "list")
       THEN /\ wStage' = "done"
            /\ wReturn' = "[ERROR]"
            /\ Publish(<<Payload("failed", 0)>>)
            /\ UNCHANGED dry_run
       ELSE /\ wStage' = "loop"
            /\ dry_run' = (_to_bool(params_dry_run) \/ _to_bool(plan_data.dry_run))
            /\ Publish(<<Payload("started", 0)>>)
            /\ UNCHANGED wReturn
    /\ UNCHANGED <<files, files0, filesBefore, params_dry_run, plan_data, change_results,
                   applied_changes, dry_run_changes, error_messages, summary,
                   _outputs, evars, gvars, rvars, pvars, fvars>>

PlanChanges == IF plan_data.changes.kind = "list" THEN plan_data.changes.items ELSE << >>

\* lines 1039-1276
ProcessChange ==
    /\ wStage = "loop"
    /\ Len(change_results) < Len(PlanChanges)
    /\ LET index == Len(change_results) + 1
           result == process_change(files, index, PlanChanges[index], dry_run,
                                    sanctuary_paths)
           status == result.entry.status
       IN  /\ files' = result.files
           /\ filesBefore' = files
           /\ change_results' = Append(change_results, result.entry)
           /\ applied_changes' = applied_changes + (IF status = "applied" THEN 1 ELSE 0)
           /\ dry_run_changes' = dry_run_changes + (IF status = "dry_run" THEN 1 ELSE 0)
           /\ error_messages' = IF status = "error" THEN Append(error_messages, index)
                                ELSE error_messages
           /\ Publish(<<Payload(IF status = "error" THEN "change_error"
                                 ELSE "change_processed", index)>>)
    /\ UNCHANGED <<files0, params_dry_run, plan_data, wStage, dry_run, summary, wReturn,
                   _outputs, evars, gvars, rvars, pvars, fvars>>

\* lines 1278-1361: the report, the summary, the output record, the result
FinishApply ==
    /\ wStage = "loop"
    /\ Len(change_results) = Len(PlanChanges)
    /\ LET written == _safe_write_text(files, report_path, ReportText(change_results),
                                       FALSE, sanctuary_paths)
           errors == IF written.error # "none" THEN Append(error_messages, 0)
                     ELSE error_messages
           now == Len(_diagnostics) + 1
       IN  /\ files' = written.files
           /\ error_messages' = errors
           /\ summary' = Summary(dry_run, applied_changes, dry_run_changes, errors)
           /\ _outputs' = register_output(
                              _outputs, VStr(report_path),
                              [status |-> IF errors # << >> THEN "created_with_warnings"
                                          ELSE "created",
                               format |-> "markdown"], now)
           /\ Publish((IF written.error # "none"
                        THEN <<Payload("report_write_failed", 0)>> ELSE << >>)
                       \o <<Payload(IF dry_run /\ errors = << >> THEN "completed_dry_run"
                                    ELSE IF errors # << >> THEN "completed_with_warnings"
                                    ELSE "completed", 0)>>)
           /\ wReturn' = IF errors # << >> THEN "[WARN]"
                         ELSE IF dry_run THEN "[DRY]" ELSE "[OK]"
    /\ wStage' = "done"
    /\ UNCHANGED <<files0, filesBefore, params_dry_run, plan_data, dry_run, change_results,
                   applied_changes, dry_run_changes, evars, gvars, rvars, pvars, fvars>>

WritesNext == LoadPlan \/ ProcessChange \/ FinishApply

\* --- _resolve_placeholders (domain/services/task_logic_handler.py) ----------

\* str.replace(old, new) for a non-empty old: occurrences are found from the
\* left and do not overlap
RECURSIVE StrReplace(_, _, _)
StrReplace(s, old, new) ==
    IF Len(s) < Len(old) THEN s
    ELSE IF Prefix(s, Len(old)) = old
    THEN new \o StrReplace(Suffix(s, Len(old)), old, new)
    ELSE <<Head(s)>> \o StrReplace(Tail(s), old, new)

\* f"${{{key}}}"
Token(key) == <<"$", "{">> \o key \o <<"}">>

\* lines 24-25: the loop over variables.items()
RECURSIVE ReplaceLoop(_, _, _)
ReplaceLoop(result, variables, k) ==
    IF k > Len(variables) THEN result
    ELSE ReplaceLoop(StrReplace(result, Token(variables[k].key), PyStr(variables[k].val).str),
                     variables, k + 1)

\* _resolve_placeholders, lines 19-37
RECURSIVE _resolve_placeholders(_, _)
_resolve_placeholders(value, variables) ==
    CASE value.kind = "str" -> VStr(ReplaceLoop(value.str, variables, 1))
      [] value.kind = "list" ->
           VList([k \in 1..Len(value.items) |-> _resolve_placeholders(value.items[k], variables)])
      [] value.kind = "dict" ->
           VDict([k \in 1..Len(value.items) |->
                    [value.items[k] EXCEPT !.val = _resolve_placeholders(@, variables)]])
      [] OTHER -> value

KeyA == <<"A">>
KeyB == <<"B">>
KeyC == <<"C">>

VariableKeys == {KeyA, KeyB, KeyC}

VariableValues ==
    {VStr(<<"x">>), VStr(Token(KeyA)), VStr(Token(KeyB)), VStr(<< >>), VInt}

\* the dicts of at most n variables, keys distinct, in every insertion order
RECURSIVE VariableMaps(_)
VariableMaps(n) ==
    IF n = 0 THEN {<< >>}
    ELSE LET fewer == VariableMaps(n - 1)
         IN  fewer \cup
             { Append(m, Entry(key, v)) :
                 m \in {f \in fewer : Len(f) = n - 1},
                 key \in VariableKeys, v \in VariableValues }

DistinctKeys(m) == \A i, j \in 1..Len(m) : m[i].key = m[j].key => i = j

TextAB == Token(KeyA) \o <<"-">> \o Token(KeyB)

PlaceholderValues ==
    {VStr(Token(KeyA)), VStr(TextAB), VStr(<<"x", "$">> \o Token(<<"D">>)), VStr(<<"$">> \o Token(KeyB) \o <<"}">>),
     VList(<<VStr(Token(KeyB)), VInt>>),
     VDict(<<Entry("workspace", VStr(Token(KeyA))), Entry("depth", VInt)>>),
     VNone}

PlaceholderInit ==
    /\ value_arg \in PlaceholderValues
    /\ variables_arg \in {m \in VariableMaps(MaxVars) : DistinctKeys(m)}
    /\ resolved = VNone
    /\ hCalled = FALSE

PlaceholderIdle ==
    /\ value_arg = VNone
    /\ variables_arg = << >>
    /\ resolved = VNone
    /\ hCalled = FALSE

ResolvePlaceholders ==
    /\ ~hCalled
    /\ resolved' = _resolve_placeholders(value_arg, variables_arg)
    /\ hCalled' = TRUE
    /\ UNCHANGED <<value_arg, variables_arg, svars, dvars, evars, gvars, rvars, pvars, bvars, wvars>>

PlaceholderNext == ResolvePlaceholders

FunctionsIdle == SlugIdle /\ DispatchIdle /\ PlaceholderIdle

Init == ExecInit /\ GuardIdle /\ RestrictIdle /\ ParseIdle /\ BridgeIdle /\ WritesIdle /\ FunctionsIdle

Next ==
    \/ ExecuteMission
    \/ ConfirmTask
    \/ OnTaskStarted
    \/ ExecuteTaskLogic
    \/ OnTaskCompleted
    \/ OnTaskFailed
    \/ OnMissionFailed
    \/ OnMissionFailedInExcept
    \/ OnMissionCompleted

Spec == Init /\ [][Next]_vars

\* one run, then a second run of the same mission with quiet listeners
NextRerun == Next \/ RunAgain

SpecRerun == Init /\ [][NextRerun]_vars

\* --- Guardrail operations on one path --------------------------------------

CheckPath ==
    /\ "check_path" \notin gCalled
    /\ gCalled' = gCalled \cup {"check_path"}
    /\ gRaised' = check_path(gPath, sanctuary_paths)
    /\ UNCHANGED <<sanctuary_paths, gPath, gSanctuary, gAllowed, evars, rvars, xvars>>

IsSanctuaryPath ==
    /\ "is_sanctuary_path" \notin gCalled
    /\ gCalled' = gCalled \cup {"is_sanctuary_path"}
    /\ gSanctuary' = is_sanctuary_path(gPath, sanctuary_paths)
    /\ UNCHANGED <<sanctuary_paths, gPath, gRaised, gAllowed, evars, rvars, xvars>>

FilterAllowedPaths ==
    /\ "filter_allowed_paths" \notin gCalled
    /\ gCalled' = gCalled \cup {"filter_allowed_paths"}
    /\ gAllowed' = filter_allowed_paths(<<gPath>>, sanctuary_paths)
    /\ UNCHANGED <<sanctuary_paths, gPath, gRaised, gSanctuary, evars, rvars, xvars>>

GuardNext == CheckPath \/ IsSanctuaryPath \/ FilterAllowedPaths

InitGuard == GuardInit /\ ExecIdle /\ RestrictIdle /\ ParseIdle /\ BridgeIdle /\ WritesIdle /\ FunctionsIdle

SpecGuard == InitGuard /\ [][GuardNext]_vars

InitRestrict == RestrictInit /\ ExecIdle /\ GuardIdle /\ ParseIdle /\ BridgeIdle /\ WritesIdle /\ FunctionsIdle

InitParse ==
    ParseInit /\ ExecIdle /\ GuardIdle /\ RestrictIdle /\ BridgeIdle /\ WritesIdle /\ FunctionsIdle

SpecParse == InitParse /\ [][ParseNext]_vars

\* --- up to MaxReparses further calls on the same parser object --------------

InitReparse ==
    ReparseInit /\ ExecIdle /\ GuardIdle /\ RestrictIdle /\ BridgeIdle /\ WritesIdle /\ FunctionsIdle

SpecReparse == InitReparse /\ [][ReparseNext]_vars

\* --- _slugify on strings of at most MaxSlugLen characters --------------------

InitSlug ==
    SlugInit /\ DispatchIdle /\ PlaceholderIdle /\ ExecIdle /\ GuardIdle /\ RestrictIdle /\ ParseIdle
             /\ BridgeIdle /\ WritesIdle

SpecSlug == InitSlug /\ [][SlugNext]_vars

\* --- one TaskLogicHandler.execute call ----------------------------------------

InitDispatch ==
    DispatchInit /\ SlugIdle /\ PlaceholderIdle /\ ExecIdle /\ GuardIdle /\ RestrictIdle /\ ParseIdle
                 /\ BridgeIdle /\ WritesIdle

SpecDispatch == InitDispatch /\ [][DispatchNext]_vars

\* --- one _resolve_placeholders call ---------------------------------------------

InitPlaceholder ==
    PlaceholderInit /\ SlugIdle /\ DispatchIdle /\ ExecIdle /\ GuardIdle /\ RestrictIdle
                    /\ ParseIdle /\ BridgeIdle /\ WritesIdle

SpecPlaceholder == InitPlaceholder /\ [][PlaceholderNext]_vars

\* --- registry operations, MaxOps of them ------------------------------------

InitBridge ==
    BridgeInit /\ ExecIdle /\ GuardIdle /\ RestrictIdle /\ ParseIdle /\ WritesIdle /\ FunctionsIdle

SpecBridge == InitBridge /\ [][BridgeNext]_vars

\* --- one task_apply_writes call over a registry fresh from construction ----

GuardConfigured ==
    /\ sanctuary_paths \in {DefaultSanctuaryPaths, <<PatAnyPrivate>>}
    /\ gPath = SegPub
    /\ gCalled = {}
    /\ gRaised = "none"
    /\ gSanctuary = FALSE
    /\ gAllowed = << >>

InitWrites ==
    WritesInit /\ GuardConfigured /\ ExecIdle /\ RestrictIdle /\ ParseIdle /\ BridgeIdle /\ FunctionsIdle

SpecWrites == InitWrites /\ [][WritesNext]_vars

SpecRestrict == InitRestrict /\ [][RestrictNext]_vars

\* ------------------------------------------------------------------------
\* Properties
\* ------------------------------------------------------------------------
Range(seq) == { seq[k] : k \in 1..Len(seq) }

HandlerInvoked(i) == i \in Range(handlerCalls)

HandlerRaised(i) == HandlerInvoked(i) /\ handlerOutcomes[i] = "raise"

Declined(i) == i \in Range(confirmCalls) /\ confirmAnswers[i] = "no"

\* the mode a task of this mission runs under, read from the mission
\* document and the configuration file
StatedMode ==
    IF metadata.context_mode # << >> THEN metadata.context_mode ELSE metadata.meta_mode

InReadOnlyMode ==
    StrLower(IF StatedMode # << >> THEN StatedMode ELSE configMode) = ModeReadOnly

HasRestrictedKeyword(text) ==
    \E kw \in {KwWrite, KwDelete, KwMove} : StrContains(StrLower(text), kw)

BlockedDiagnostic(i) ==
    \E k \in 1..Len(diagnostics) :
        /\ diagnostics[k].source = "executor.task"
        /\ diagnostics[k].event = "blocked"
        /\ diagnostics[k].task = i

TaskFails(i) == taskStatus[i] = "FAILED" \/ HandlerRaised(i)

FirstFailure(i) == TaskFails(i) /\ \A j \in 1..(i - 1) : ~TaskFails(j)

\* C1: fail-fast.  When execute_mission is over and task i is the first task
\* that failed (it ended FAILED or its handler raised), the mission is
\* FAILED, execute_mission returned False, the tasks before i are COMPLETED,
\* the tasks after i are PENDING and their handlers were never invoked.
C1_FailFast ==
    Finished =>
        \A i \in TaskIds :
            FirstFailure(i) =>
                /\ missionStatus = "FAILED"
                /\ returned = "False"
                /\ \A j \in 1..(i - 1) : taskStatus[j] = "COMPLETED"
                /\ \A j \in (i + 1)..NumTasks :
                       taskStatus[j] = "PENDING" /\ ~HandlerInvoked(j)

\* C2: when no task is blocked, no confirmation is declined and every
\* handler returns normally, execute_mission returns True and leaves the
\* mission and every task COMPLETED.
C2_AllSucceed ==
    ( /\ Finished
      /\ \A i \in TaskIds : ~(InReadOnlyMode /\ HasRestrictedKeyword(goals[i]))
      /\ \A i \in TaskIds : ~Declined(i)
      /\ \A i \in TaskIds : ~HandlerRaised(i) )
    => /\ returned = "True"
       /\ missionStatus = "COMPLETED"
       /\ \A i \in TaskIds : taskStatus[i] = "COMPLETED"

\* C3: when the confirmation callback answered no for task i, at the end of
\* execute_mission task i and the mission are CANCELLED, False was returned,
\* no handler ran for task i or a later task, and later tasks are PENDING.
C3_DeclineCancels ==
    Finished =>
        \A i \in TaskIds :
            Declined(i) =>
                /\ taskStatus[i] = "CANCELLED"
                /\ missionStatus = "CANCELLED"
                /\ returned = "False"
                /\ \A j \in i..NumTasks : ~HandlerInvoked(j)
                /\ \A j \in (i + 1)..NumTasks : taskStatus[j] = "PENDING"

\* C4: when the handler of task i raised, at the end of execute_mission the
\* task is FAILED with an error text, the mission is FAILED and no later
\* task was executed.
C4_HandlerExceptionFails ==
    Finished =>
        \A i \in TaskIds :
            HandlerRaised(i) =>
                /\ taskStatus[i] = "FAILED"
                /\ taskError[i] # "None"
                /\ missionStatus = "FAILED"
                /\ \A j \in (i + 1)..NumTasks : ~HandlerInvoked(j)

\* C5: in read_only mode, a task whose goal contains a restricted keyword
\* and that _execute_task was called with is FAILED with an error recorded
\* and a 'blocked' diagnostic published, its handler is never invoked, and
\* the mission ends FAILED.
C5_ReadOnlyBlocksBeforeHandler ==
    \A i \in TaskIds :
        (InReadOnlyMode /\ HasRestrictedKeyword(goals[i])) =>
            /\ ~HandlerInvoked(i)
            /\ taskStatus[i] \notin {"IN_PROGRESS", "COMPLETED"}
            /\ i \in Range(entered) =>
                   /\ taskStatus[i] = "FAILED"
                   /\ taskError[i] # "None"
                   /\ BlockedDiagnostic(i)
                   /\ Finished => missionStatus = "FAILED"

C5_Witness ==
    /\ Finished
    /\ \E i \in TaskIds :
           /\ i \in Range(entered)
           /\ InReadOnlyMode
           /\ HasRestrictedKeyword(goals[i])
           /\ taskStatus[i] = "FAILED"

\* C6: a listener that raises does not change orchestration: the second run
\* of the same mission, in which no listener raises, ends with the same
\* mission status, the same task statuses and the same returned value as
\* the first run, in which a listener raised.
C6_ListenersDoNotAffectOrchestration ==
    (rerun /\ Finished) =>
        /\ missionStatus = firstRun.missionStatus
        /\ taskStatus = firstRun.taskStatus
        /\ returned = firstRun.returned

\* C7: the confirmation callback is called only when require_confirmation
\* is true and the stored auto-run flag is not set, and then before every
\* task that is started; when the auto-run flag is set the callback is never
\* called and neither a task nor the mission is CANCELLED.
C7_ConfirmationGate ==
    /\ confirmCalls # << >> => (require_confirmation /\ ~auto_run)
    /\ (pc # "idle" /\ require_confirmation /\ ~auto_run) =>
           Range(entered) \subseteq Range(confirmCalls)
    /\ auto_run =>
           /\ confirmCalls = << >>
           /\ missionStatus # "CANCELLED"
           /\ \A i \in TaskIds : taskStatus[i] # "CANCELLED"

C7_Witness ==
    /\ Finished
    /\ require_confirmation
    /\ auto_run
    /\ entered # << >>

ExecutorDiagnostics ==
    SelectSeq(diagnostics, LAMBDA e : e.source \in {"executor.mission", "executor.task"})

RECURSIVE TaskEvents(_)
TaskEvents(n) ==
    IF n = 0 THEN << >>
    ELSE TaskEvents(n - 1)
         \o <<TaskDiag("started", n, "None"), TaskDiag("completed", n, "None")>>

\* C8: when execute_mission is over and every task succeeded, the executor
\* diagnostics are exactly: mission 'started', then for each task in order
\* its 'started' and its 'completed', then mission 'completed'.
C8_DiagnosticOrder ==
    (Finished /\ \A i \in TaskIds : taskStatus[i] = "COMPLETED") =>
        ExecutorDiagnostics =
            <<MissionDiag("started", 0, "None")>>
            \o TaskEvents(NumTasks)
            \o <<MissionDiag("completed", 0, "None")>>

ToSlashes(path) == [k \in 1..Len(path) |-> IF path[k] = BackSlash THEN "/" ELSE path[k]]

ToBackslashes(path) == [k \in 1..Len(path) |-> IF path[k] = "/" THEN BackSlash ELSE path[k]]

MatchesSomePattern(path) ==
    \E k \in 1..Len(sanctuary_paths) : fnmatch(ToSlashes(path), ToSlashes(sanctuary_paths[k]))

\* C9: check_path raises GuardrailError exactly for the paths that match a
\* configured pattern, gives the same answer for the '/' and the '\'
\* spelling of the path, and agrees with is_sanctuary_path.
C9_CheckPathMatchesPatterns ==
    "check_path" \in gCalled =>
        /\ (gRaised = "GuardrailError") <=> MatchesSomePattern(gPath)
        /\ check_path(ToSlashes(gPath), sanctuary_paths) = gRaised
        /\ check_path(ToBackslashes(gPath), sanctuary_paths) = gRaised
        /\ "is_sanctuary_path" \in gCalled => (gSanctuary <=> (gRaised = "GuardrailError"))

C9_Witness ==
    /\ gCalled = {"check_path", "is_sanctuary_path", "filter_allowed_paths"}
    /\ gRaised = "GuardrailError"
    /\ BackSlash \in Range(gPath)
    /\ gSanctuary

\* C10 as stated: the restriction fails exactly when the mode stated by the
\* mission, or write_enabled when it states none, is read_only and the text
\* contains 'write', 'delete' or 'move' in any letter case.
C10_DefaultIsWriteEnabled ==
    "enforce_task_restrictions" \in rCalled =>
        ( (rResult = "GuardrailError") <=>
            /\ StrLower(IF rContextMode # << >> THEN rContextMode
                        ELSE IF rMetaMode # << >> THEN rMetaMode
                        ELSE ModeWriteEnabled) = ModeReadOnly
            /\ HasRestrictedKeyword(rText) )

\* C10 amended: the restriction fails exactly when the effective mode is
\* read_only and the text contains 'write', 'delete' or 'move' in any letter
\* case, where the effective mode is the mode of the mission context, else
\* the mode of the mission meta, else defaults.mode of config/settings.yaml
\* (write_enabled when that file or key is absent).
C10_DefaultIsConfigMode ==
    "enforce_task_restrictions" \in rCalled =>
        ( (rResult = "GuardrailError") <=>
            /\ StrLower(IF rContextMode # << >> THEN rContextMode
                        ELSE IF rMetaMode # << >> THEN rMetaMode
                        ELSE rConfigMode) = ModeReadOnly
            /\ HasRestrictedKeyword(rText) )

C10_Witness ==
    /\ "enforce_task_restrictions" \in rCalled
    /\ rContextMode = << >>
    /\ rMetaMode = << >>
    /\ rResult = "GuardrailError"

\* ------------------------------------------------------------------------
\* Properties of the flexible parser
\* ------------------------------------------------------------------------
ParseReturned == pStage = "done" /\ pOutcome = "mission"

\* the document's root mapping and its meta section, empty when absent
RootMapping == IF pRaw.kind = "dict" THEN pRaw ELSE VDict(<< >>)

MetaSection ==
    IF DictGet(RootMapping, "meta").kind = "dict"
    THEN DictGet(RootMapping, "meta") ELSE VDict(<< >>)

Normalized == pStage = "normalized" \/ (pStage = "done" /\ pOutcome \in {"mission", "ValueError"})

TaskWarnings == SelectSeq(pDiagnostics.warnings, LAMBDA w : w.index > 0)

GoalKeys == {"goal", "prompt", "description", "summary"}

\* unsupported shape, empty string, mapping without a goal
Malformed(c) ==
    CASE c.kind = "str" -> \A k \in 1..Len(c.str) : c.str[k] = " "
      [] c.kind = "dict" -> \A key \in GoalKeys : ~PyBool(DictGet(c, key))
      [] OTHER -> TRUE

\* the goal a well-formed candidate of this model stands for
GoalOfCandidate(c) ==
    CASE c = CandGo -> StrGo
      [] c = CandDo -> StrDo
      [] c = CandMapGoal -> StrG
      [] c = CandMapEmptyName -> StrG
      [] c = CandMapTitled -> <<"d","o"," ","g","o">>
      [] OTHER -> << >>

\* the task candidates of a list document or of an explicit tasks list
ListedCandidates ==
    IF pRaw.kind = "list" THEN pRaw.items
    ELSE IF pRaw.kind = "dict" /\ DictGet(pRaw, "tasks").kind = "list"
    THEN DictGet(pRaw, "tasks").items
    ELSE << >>

Survivors == SelectSeq(ListedCandidates, LAMBDA c : ~Malformed(c))

\* C11: for a document whose root is a mapping, a list or a string,
\* parse_content ends either with a mission of at least one task or with
\* FlexYALMParserError, never with an empty mission or another error.
C11_TasksOrParseError ==
    (pStage = "done" /\ pRaw.kind \in {"dict", "list", "str"})
        => \/ pOutcome = "mission" /\ Len(pMission.tasks) >= 1
           \/ pOutcome = "FlexYALMParserError"

\* C12: malformed candidates are dropped with one warning each, the other
\* candidates are all processed and keep their order, and the parse fails
\* only if no candidate survives.
C12_MalformedCandidatesDropped ==
    (pStage = "done" /\ ListedCandidates # << >>)
        => /\ Survivors # << >> => pOutcome = "mission"
           /\ pOutcome = "mission" =>
                /\ Len(pMission.tasks) = Len(Survivors)
                /\ \A k \in 1..Len(Survivors) :
                     pMission.tasks[k].goal = GoalOfCandidate(Survivors[k])
                /\ Len(TaskWarnings) = Len(ListedCandidates) - Len(Survivors)

IsContainer(v) == v.kind \in {"list", "dict"}

OtherSourcesPresent ==
    \/ \E k \in 1..Len(RootSources) : PyBool(DictGet(pRaw, RootSources[k][1]))
    \/ PyBool(DictGet(pRaw, "description"))
    \/ \E k \in 1..Len(MetaSources) : PyBool(DictGet(MetaSection, MetaSources[k][1]))

OnlyTasksSection ==
    /\ pDiagnostics.fallback_chain
         = <<Trace("tasks", Len(DictGet(pRaw, "tasks").items))>>
    /\ Len(pNormalized.tasks) <= Len(DictGet(pRaw, "tasks").items)

\* C13 as stated: whenever the mapping root has a tasks list or mapping,
\* the tasks section is the only source of candidates and the fallback
\* chain records only 'tasks'.
C13_ExplicitTasksSoleSource ==
    (Normalized /\ pRaw.kind = "dict" /\ IsContainer(DictGet(pRaw, "tasks")))
        => OnlyTasksSection

\* C13 amended: a tasks list or mapping with at least one entry is the only
\* source of candidates and the fallback chain records only 'tasks'; an
\* empty tasks list or mapping counts as absent.
C13_NonEmptyTasksSoleSource ==
    (/\ Normalized /\ pRaw.kind = "dict" /\ IsContainer(DictGet(pRaw, "tasks"))
     /\ DictGet(pRaw, "tasks").items # << >>)
        => OnlyTasksSection

C13_Witness ==
    /\ Normalized /\ pRaw.kind = "dict" /\ IsContainer(DictGet(pRaw, "tasks"))
    /\ DictGet(pRaw, "tasks").items # << >>
    /\ OtherSourcesPresent
    /\ pDiagnostics.fallback_chain = <<Trace("tasks", Len(DictGet(pRaw, "tasks").items))>>

\* the priority order of the sources, as the specification lists it
ClaimedOrder ==
    <<"meta.task", "meta.tasks", "meta.mission", "meta.mission_prompt",
      "meta.goal", "meta.prompt", "root.mission", "root.task", "root.prompt",
      "root.prompts", "root.instructions", "root.instruction", "root.steps">>

SourceValue(name) ==
    LET in_meta(key) == DictGet(MetaSection, key)
    IN  CASE name = "meta.task" -> in_meta("task")
          [] name = "meta.tasks" -> in_meta("tasks")
          [] name = "meta.mission" -> in_meta("mission")
          [] name = "meta.mission_prompt" -> in_meta("mission_prompt")
          [] name = "meta.goal" -> in_meta("goal")
          [] name = "meta.prompt" -> in_meta("prompt")
          [] name = "root.mission" -> DictGet(pRaw, "mission")
          [] name = "root.task" -> DictGet(pRaw, "task")
          [] name = "root.prompt" -> DictGet(pRaw, "prompt")
          [] name = "root.prompts" -> DictGet(pRaw, "prompts")
          [] name = "root.instructions" -> DictGet(pRaw, "instructions")
          [] name = "root.instruction" -> DictGet(pRaw, "instruction")
          [] name = "root.steps" -> DictGet(pRaw, "steps")
          [] OTHER -> DictGet(pRaw, "description")

ItemCount(name) ==
    LET v == SourceValue(name)
    IN  IF v.kind = "none" THEN 0 ELSE IF v.kind = "list" THEN Len(v.items) ELSE 1

RECURSIVE ClaimedChain(_)
ClaimedChain(k) ==
    IF k > Len(ClaimedOrder) THEN << >>
    ELSE (IF ItemCount(ClaimedOrder[k]) > 0
          THEN <<Trace(ClaimedOrder[k], ItemCount(ClaimedOrder[k]))>>
          ELSE << >>)
         \o ClaimedChain(k + 1)

RECURSIVE SumCounts(_, _)
SumCounts(chain, k) ==
    IF k > Len(chain) THEN 0 ELSE chain[k].count + SumCounts(chain, k + 1)

NoExplicitTasks ==
    LET tasks == DictGet(pRaw, "tasks")
    IN  tasks.kind = "none" \/ (IsContainer(tasks) /\ tasks.items = << >>)

\* C14: without explicit tasks the candidates come from the sources in the
\* fixed priority order, every non-empty source gives all its items, the
\* fallback chain lists the contributing sources in that order with their
\* item counts, and root description is used only when the other sources
\* gave no candidate.
C14_ImplicitSourcesInOrder ==
    (Normalized /\ pRaw.kind = "dict" /\ NoExplicitTasks)
        => /\ ClaimedChain(1) # << >> => pDiagnostics.fallback_chain = ClaimedChain(1)
           /\ ClaimedChain(1) = << >> =>
                pDiagnostics.fallback_chain
                    = <<Trace("root.description", ItemCount("root.description"))>>
           /\ Len(pNormalized.tasks) + Len(TaskWarnings)
                = SumCounts(pDiagnostics.fallback_chain, 1)

C14_Witness ==
    /\ Normalized /\ pRaw.kind = "dict" /\ NoExplicitTasks
    /\ Len(pDiagnostics.fallback_chain) = 2
    /\ pDiagnostics.fallback_chain[1].source = "meta.prompt"
    /\ pDiagnostics.fallback_chain[2].source = "root.mission"
    /\ pDiagnostics.fallback_chain[2].count = 2
    /\ Len(pNormalized.tasks) = 2

\* the name hints in the order the specification lists them
ClaimedHints ==
    LET meta == MetaSection
        root == RootMapping
    IN  << DictGet(meta, "project_name"), DictGet(meta, "mission_id"),
           DictGet(meta, "name"), DictGet(meta, "title"),
           DictGet(root, "project_name"), DictGet(root, "mission"),
           DictGet(root, "mission_name"), DictGet(root, "name"),
           DictGet(root, "title"), pFallbackName,
           IF pSource.kind = "str" THEN VStr(<<"s","r","c">>) ELSE VNone >>

\* a hint read from the document counts when it has a character other
\* than a space; the caller's fallback name counts when it is not empty
NonEmptyHint(k) ==
    LET v == ClaimedHints[k]
    IN  /\ v.kind = "str"
        /\ IF k = 10
           THEN v.str # << >>
           ELSE \E j \in 1..Len(v.str) : v.str[j] # " "

\* the slug of each name used in the documents
SlugOfHint(v) ==
    CASE v.str = StrDeMo -> <<"d","e","_","m","o">>
      [] v.str = StrBang -> << >>
      [] v.str = StrBlank -> << >>
      [] OTHER -> v.str

FirstHint ==
    LET kept == {k \in 1..Len(ClaimedHints) : NonEmptyHint(k)}
    IN  IF kept = {} THEN VNone
        ELSE ClaimedHints[CHOOSE k \in kept : \A j \in kept : k <= j]

IsTimestampName(name) ==
    name.kind = "str" /\ \E now \in Clock : name.str = TimestampName(now)

\* C15 as stated: the mission name is the slug of the first non-empty hint
\* in the listed order, and a timestamp name appears only when no hint
\* yields a name.
C15_NameIsSlugOfFirstHint ==
    ParseReturned =>
        IF \E k \in 1..Len(ClaimedHints) :
               NonEmptyHint(k) /\ SlugOfHint(ClaimedHints[k]) # << >>
        THEN pMission.name = VStr(SlugOfHint(FirstHint))
        ELSE IsTimestampName(pMission.name)

\* C15 amended: a project_name present in meta is the mission name as it
\* is written; otherwise the name is the slug of the first non-empty hint
\* in the listed order, or a timestamp name when that slug is empty or no
\* hint exists.
C15_NameIsProjectNameOrSlug ==
    ParseReturned =>
        LET first == FirstHint
        IN  IF DictHas(MetaSection, "project_name")
            THEN pMission.name = DictGet(MetaSection, "project_name")
            ELSE IF first.kind = "str" /\ SlugOfHint(first) # << >>
            THEN pMission.name = VStr(SlugOfHint(first))
            ELSE IsTimestampName(pMission.name)

C15_Witness ==
    /\ ParseReturned
    /\ DictGet(MetaSection, "title") = VStr(StrAb)
    /\ DictGet(RootMapping, "project_name") = VStr(StrDeMo)
    /\ pFallbackName = VStr(StrFb)
    /\ pMission.name = VStr(StrAb)

\* C16: a non-empty project_name in meta is the name of the returned
\* mission, unchanged in case and spacing, whatever other hints exist.
C16_ProjectNameVerbatim ==
    (/\ ParseReturned
     /\ DictGet(MetaSection, "project_name").kind = "str"
     /\ DictGet(MetaSection, "project_name").str # << >>)
        => pMission.name = DictGet(MetaSection, "project_name")

C16_Witness ==
    /\ ParseReturned
    /\ DictGet(MetaSection, "project_name") = VStr(StrDeMo)
    /\ DictGet(RootMapping, "name") = VStr(StrAb)
    /\ pFallbackName = VStr(StrFb)
    /\ pSource = VStr(StrSourcePath)
    /\ pMission.name = VStr(StrDeMo)

\* --- task_apply_writes -------------------------------------------------------

WritesReturned == wStage = "done" /\ wReturn # "[ERROR]"

\* the caller asked for a dry run, in params or in the plan
DryRunRequested ==
    params_dry_run = VBool(TRUE) \/ plan_data.dry_run = VStr(<<"Y","e","s">>)

NamesFile(change) == change.kind = "dict" /\ change.file.kind = "str"

TargetOf(change) == JoinPath(workspace_path, change.file.str)

PlanTargets == { TargetOf(PlanChanges[k]) : k \in {j \in 1..Len(PlanChanges) : NamesFile(PlanChanges[j])} }

SameFile(p) == Stat(files, p) = Stat(files0, p)

\* how many changes the same plan applies to the same files without dry_run
RECURSIVE AppliedFrom(_, _)
AppliedFrom(fs, k) ==
    IF k > Len(PlanChanges) THEN 0
    ELSE LET result == process_change(fs, k, PlanChanges[k], FALSE, sanctuary_paths)
         IN  (IF result.entry.status = "applied" THEN 1 ELSE 0)
             + AppliedFrom(result.files, k + 1)

WouldBeApplied == AppliedFrom(files0, 1)

\* C17: with dry_run true every target file is as before the call, the
\* summary has applied = 0, and dry_run_changes is the number of changes
\* that would have been applied (at least 1 when some change would occur).
C17_DryRunChangesNoTarget ==
    (WritesReturned /\ DryRunRequested) =>
        /\ \A p \in PlanTargets : SameFile(p)
        /\ summary.applied = 0
        /\ summary.dry_run_changes = WouldBeApplied
        /\ (WouldBeApplied > 0 => summary.dry_run_changes >= 1)

ActionName(change) ==
    IF change.kind = "dict" /\ change.action.kind = "str" THEN StrLower(StrStrip(change.action.str)) ELSE << >>

Readable(fs, path) ==
    /\ ~is_sanctuary_path(path, sanctuary_paths)
    /\ Stat(fs, path).exists

\* the content the change brings: its own, or the text of a readable source
BringsContent(fs, change) ==
    /\ change.source.kind = "str" => Readable(fs, JoinPath(workspace_path, change.source.str))
    /\ change.content.kind # "none" \/ change.source.kind = "str"

\* the marker a change is anchored on, by the selectors' precedence
AnchorOf(change) ==
    _pick_string(<<IF ActionName(change) = ActInsertBefore THEN change.selectors.before
                   ELSE VNone,
                   IF ActionName(change) = ActInsertAfter THEN change.selectors.after
                   ELSE VNone,
                   change.selectors.marker, change.selectors.target>>)

BlockNamed(change) ==
    /\ ActionName(change) = ActReplaceBlock
    /\ _pick_string(<<change.selectors.start>>) # << >>
    /\ _pick_string(<<change.selectors.end>>) # << >>

\* the start marker occurs and the end marker occurs after it
BlockFound(text, start, end) ==
    \E i \in 0..Len(text), j \in 0..Len(text) :
        /\ i + Len(start) <= j
        /\ j + Len(end) <= Len(text)
        /\ SubSeq(text, i + 1, i + Len(start)) = start
        /\ SubSeq(text, j + 1, j + Len(end)) = end
        /\ \A h \in 0..(i - 1) : SubSeq(text, h + 1, h + Len(start)) # start

MarkerFound(fs, change) ==
    LET text == Stat(fs, TargetOf(change)).text
    IN  IF BlockNamed(change)
        THEN BlockFound(text, _pick_string(<<change.selectors.start>>),
                        _pick_string(<<change.selectors.end>>))
        ELSE AnchorOf(change) # << >> /\ StrContains(text, AnchorOf(change))

MarkerActions == {ActInsertBefore, ActInsertAfter, ActReplaceBlock}

\* the change passes every test task_apply_writes makes before it writes
ValidAgainst(fs, change) ==
    /\ NamesFile(change)
    /\ change.file.str # << >>
    /\ BringsContent(fs, change)
    /\ \/ ActionName(change) \in {ActOverwrite, ActAppend}
       \/ /\ ActionName(change) \in MarkerActions
          /\ Readable(fs, TargetOf(change))
          /\ MarkerFound(fs, change)

ValidChanges == {k \in 1..Len(PlanChanges) : ValidAgainst(files0, PlanChanges[k])}

ReportFile == ResolvePath(report_path)

\* C17 (amended): with dry_run true no file other than the handler's own
\* report changes at any point of the call, the summary has applied = 0,
\* and dry_run_changes is the number of changes that pass validation
\* against the files as they were before the call.
C17_DryRunChangesOnlyReport ==
    DryRunRequested =>
        /\ \A p \in (DOMAIN files \cup DOMAIN files0) \ {ReportFile} : SameFile(p)
        /\ wStage # "done" => files = files0
        /\ applied_changes = 0
        /\ WritesReturned =>
              /\ summary.applied = 0
              /\ summary.dry_run = TRUE
              /\ summary.dry_run_changes = Cardinality(ValidChanges)

C17_Witness ==
    /\ WritesReturned
    /\ plan_data.dry_run = VStr(<<"Y","e","s">>)
    /\ summary.dry_run_changes = 2
    /\ Stat(files0, JoinPath(Cwd, FileA)).exists
    /\ \E k \in 1..Len(PlanChanges) :
          /\ NamesFile(PlanChanges[k])
          /\ TargetOf(PlanChanges[k]) = JoinPath(Cwd, FileA)
          /\ ActionName(PlanChanges[k]) = ActReplaceBlock
          /\ change_results[k].status = "dry_run"

LastChange == PlanChanges[Len(change_results)]

LastEntry == change_results[Len(change_results)]

JustProcessed == wStage = "loop" /\ change_results # << >>

TargetMissing(fs, change) == ~Stat(fs, TargetOf(change)).exists

LedgerInPlanOrder ==
    WritesReturned =>
        /\ Len(change_results) = Len(PlanChanges)
        /\ \A k \in 1..Len(change_results) :
              /\ change_results[k].index = k
              /\ change_results[k].status \in {"applied", "dry_run", "error"}

\* C18: a change with a non-overwrite action whose marker is missing or
\* whose target file does not exist gets ledger status 'error' and modifies
\* nothing, and every later change is still processed in plan order.
C18_MissingMarkerOrTargetIsError ==
    /\ (/\ JustProcessed
        /\ NamesFile(LastChange)
        /\ LastChange.file.str # << >>
        /\ \/ /\ ActionName(LastChange) \in MarkerActions \cup {ActAppend}
              /\ TargetMissing(filesBefore, LastChange)
           \/ /\ ActionName(LastChange) \in MarkerActions
              /\ ~MarkerFound(filesBefore, LastChange))
       => (LastEntry.status = "error" /\ files = filesBefore)
    /\ LedgerInPlanOrder

\* C18 (amended): a change with action insert_before, insert_after or
\* replace_block whose marker is missing or whose target file does not
\* exist gets ledger status 'error' and modifies nothing, and every later
\* change is still processed in plan order.
C18_MissingMarkerIsError ==
    /\ (/\ JustProcessed
        /\ NamesFile(LastChange)
        /\ LastChange.file.str # << >>
        /\ ActionName(LastChange) \in MarkerActions
        /\ \/ TargetMissing(filesBefore, LastChange)
           \/ ~MarkerFound(filesBefore, LastChange))
       => (LastEntry.status = "error" /\ files = filesBefore)
    /\ LedgerInPlanOrder

C18_Witness ==
    /\ WritesReturned
    /\ ~dry_run
    /\ Len(change_results) = 2
    /\ NamesFile(PlanChanges[1])
    /\ ActionName(PlanChanges[1]) = ActInsertAfter
    /\ Stat(files0, TargetOf(PlanChanges[1])).exists
    /\ ~MarkerFound(files0, PlanChanges[1])
    /\ change_results[1].status = "error"
    /\ change_results[2].status = "applied"

\* --- ContextBridge registry --------------------------------------------------

Known(outputs, destination) ==
    \E k \in 1..Len(outputs) : outputs[k].destination = destination

\* C19: register_output on a destination that already has a record updates
\* that record's status and metadata in place and leaves the number of
\* records unchanged; the number grows by exactly one only for a new
\* destination.
C19_RegisterOutputUpserts ==
    bLast.op = "register_output" =>
        LET before == bLast.before.outputs
            destination == VStr(bLast.destination.str)
            status == IF bLast.metadata.status = "absent" THEN "created"
                      ELSE bLast.metadata.status
        IN  IF Known(before, destination)
            THEN /\ Len(_outputs) = Len(before)
                 /\ \E k \in 1..Len(before) :
                       /\ before[k].destination = destination
                       /\ _outputs[k].destination = destination
                       /\ _outputs[k].status = status
                       /\ bLast.metadata.format # "absent" =>
                              _outputs[k].format = bLast.metadata.format
                       /\ \A j \in 1..Len(before) : j # k => _outputs[j] = before[j]
            ELSE /\ Len(_outputs) = Len(before) + 1
                 /\ _outputs[Len(_outputs)].destination = destination
                 /\ _outputs[Len(_outputs)].status = status
                 /\ \A j \in 1..Len(before) : _outputs[j] = before[j]

C19_Witness ==
    /\ bLast.op = "register_output"
    /\ Known(bLast.before.outputs, VStr(bLast.destination.str))
    /\ bLast.destination.kind = "path"
    /\ bLast.metadata.status = "failed"
    /\ Len(_outputs) = 1
    /\ _outputs[1].status = "failed"

\* C20: reset() leaves outputs and diagnostics empty and the mission meta,
\* context and name cleared while get_workspace() answers as before the
\* call, and what the registry holds once execute_mission has published
\* 'started' all comes from the new run.
C20_ResetKeepsWorkspace ==
    /\ bLast.op = "reset" =>
          /\ _outputs = << >>
          /\ _diagnostics = << >>
          /\ _mission_meta = NoMeta
          /\ _mission_context = NoContext
          /\ _mission_name = VNone
          /\ get_workspace(BridgeState) = bLast.before.current_workspace
    /\ bLast.op = "execute_mission" =>
          /\ _diagnostics # << >>
          /\ \A k \in 1..Len(_diagnostics) : _diagnostics[k].timestamp = bOps
          /\ _diagnostics[Len(_diagnostics)].payload.event = "started"
          /\ \A k \in 1..Len(_outputs) : _outputs[k].status = "declared"

C20_Witness ==
    /\ bLast.op = "reset"
    /\ bLast.before.outputs # << >>
    /\ bLast.before.diagnostics # << >>
    /\ bLast.before.mission_name # VNone
    /\ bLast.before.current_workspace = VStr(JoinPath(Cwd, PathRel))
    /\ _current_workspace = VStr(JoinPath(Cwd, PathRel))

\* --- C21 ---------------------------------------------------------------------

\* the calls on this parser object that returned a mission, the one that just
\* ended included, each with the diagnostics the parser held when it returned
ReturnedCalls ==
    {c \in Range(pSeen) : c.outcome = "mission"}
    \cup (IF pStage = "done" /\ pOutcome = "mission"
          THEN {Call(pRaw, pSource, pFallbackName, pOutcome, last_diagnostics)}
          ELSE {})

SameArguments(c, d) ==
    /\ c.raw = d.raw
    /\ c.source = d.source
    /\ c.fallback_name = d.fallback_name

\* C21: two parse_content calls on the same parser object with the same
\* content, source and fallback name that both return a mission leave the
\* same mode label, the same fallback chain and the same warnings in the same
\* order, whatever was parsed before either of them and whatever the clock said
C21_ReparseSameDiagnostics ==
    \A c, d \in ReturnedCalls :
        SameArguments(c, d) =>
            /\ c.diagnostics.mode = d.diagnostics.mode
            /\ c.diagnostics.fallback_chain = d.diagnostics.fallback_chain
            /\ c.diagnostics.warnings = d.diagnostics.warnings

\* a document was parsed on a fresh parser, then a document with another mode
\* label, then the first document again, and all three calls returned
C21_Witness ==
    /\ pStage = "done"
    /\ pOutcome = "mission"
    /\ Len(pSeen) = 2
    /\ pSeen[1].outcome = "mission"
    /\ SameArguments(pSeen[1], Call(pRaw, pSource, pFallbackName, pOutcome, last_diagnostics))
    /\ pSeen[2].outcome = "mission"
    /\ pSeen[2].raw # pRaw
    /\ pSeen[2].diagnostics.mode # last_diagnostics.mode
    /\ last_diagnostics.warnings # << >>
    /\ last_diagnostics.fallback_chain # << >>

\* --- C22 ---------------------------------------------------------------------

StatusGoes(i, from, to) == taskStatus[i] = from /\ taskStatus'[i] = to

BlockedNow(i) ==
    enforce_task_restrictions(goals[i], get_mode(mission_context', mission_meta'),
                              configMode) = "GuardrailError"

HandingOver ==
    pc \in {"confirm", "on_task_started", "on_task_completed", "on_task_failed",
            "on_mission_failed", "on_mission_failed_except", "on_mission_completed"}

MissionStartedIn(entries) ==
    \E k \in 1..Len(entries) :
        entries[k].source = "executor.mission" /\ entries[k].event = "started"

\* C24: whenever the confirmation callback or a lifecycle listener is about
\* to be called, the snapshot in mission.metadata['context_bridge'] holds the
\* registry's diagnostics as they are now, the mission's 'started' event among
\* them
C24_SnapshotCurrentAtHandover ==
    HandingOver =>
        /\ snapshot = diagnostics
        /\ MissionStartedIn(snapshot)

\* --- C25 ---------------------------------------------------------------------

Executed == dispatched # NotDispatched

NamedAs(name) == StrLower(task_name_arg) = name

LoweredType == StrLower(IF task_type_arg = << >> THEN TypeGeneric ELSE task_type_arg)

MatchesNoRule ==
    /\ ~NamedAs(NameApplyWrites)
    /\ ~NamedAs(NameGatherOverview)
    /\ ~NamedAs(NameGenerateReport)
    /\ LoweredType \in {TypeGeneric, TypeUnknown}

\* C25: execute tests the task name before the task type: a task named
\* task_apply_writes, task_gather_overview or task_generate_report goes to
\* the handler of that name whatever its task_type is, and a task that
\* matches no rule gets the '[INFO]' status without an execution context
\* being built
C25_NameRulesFirst ==
    Executed =>
        /\ NamedAs(NameApplyWrites) => dispatched.handler = "task_apply_writes"
        /\ NamedAs(NameGatherOverview) => dispatched.handler = "task_gather_overview"
        /\ NamedAs(NameGenerateReport) => dispatched.handler = "task_generate_report"
        /\ MatchesNoRule => dispatched = Branch("[INFO]", FALSE)

\* --- C26 ---------------------------------------------------------------------

\* the variables whose token starts the text
TokensAt(text, variables) ==
    {k \in 1..Len(variables) :
        /\ Len(text) >= Len(Token(variables[k].key))
        /\ Prefix(text, Len(Token(variables[k].key))) = Token(variables[k].key)}

\* one pass over the text: a token of the text gives way to its variable's
\* value, which is not looked at again
RECURSIVE SinglePass(_, _)
SinglePass(text, variables) ==
    IF text = << >> THEN << >>
    ELSE IF TokensAt(text, variables) # {}
    THEN LET k == CHOOSE j \in TokensAt(text, variables) : TRUE
         IN  PyStr(variables[k].val).str
             \o SinglePass(Suffix(text, Len(Token(variables[k].key))), variables)
    ELSE <<Head(text)>> \o SinglePass(Tail(text), variables)

RECURSIVE SinglePassValue(_, _)
SinglePassValue(value, variables) ==
    CASE value.kind = "str" -> VStr(SinglePass(value.str, variables))
      [] value.kind = "list" ->
           VList([k \in 1..Len(value.items) |-> SinglePassValue(value.items[k], variables)])
      [] value.kind = "dict" ->
           VDict([k \in 1..Len(value.items) |->
                    [value.items[k] EXCEPT !.val = SinglePassValue(@, variables)]])
      [] OTHER -> value

\* the same variables stored in another order
Reorderings(variables) ==
    { [k \in 1..Len(variables) |-> variables[f[k]]] :
        f \in {g \in [1..Len(variables) -> 1..Len(variables)] :
                 \A i, j \in 1..Len(variables) : g[i] = g[j] => i = j} }

\* C26: _resolve_placeholders replaces the ${NAME} tokens of the original
\* string and nothing else: a token inside a substituted value stays as text,
\* and the result is the same for every order in which the variables are
\* stored
C26_SinglePassSubstitution ==
    hCalled =>
        /\ resolved = SinglePassValue(value_arg, variables_arg)
        /\ \A reordered \in Reorderings(variables_arg) :
               _resolve_placeholders(value_arg, reordered) = resolved

\* --- C27 ---------------------------------------------------------------------

InProgress == {i \in TaskIds : taskStatus[i] = "IN_PROGRESS"}

\* read in mission order: COMPLETED tasks, then at most one task that is
\* IN_PROGRESS, FAILED or CANCELLED, then PENDING tasks
InSequence ==
    \E k \in 0..NumTasks :
        /\ \A j \in 1..k : taskStatus[j] = "COMPLETED"
        /\ k < NumTasks =>
               taskStatus[k + 1] \in {"IN_PROGRESS", "FAILED", "CANCELLED", "PENDING"}
        /\ \A j \in (k + 2)..NumTasks : taskStatus[j] = "PENDING"

\* a step that invokes a handler invokes it for one task, which is
\* IN_PROGRESS when the handler is called
HandlerForTaskInProgress ==
    handlerCalls' # handlerCalls =>
        \E i \in TaskIds :
            /\ handlerCalls' = Append(handlerCalls, i)
            /\ taskStatus[i] = "IN_PROGRESS"

\* C27: at every point of execute_mission the task statuses, read in mission
\* order, are COMPLETED tasks, then at most one task that is IN_PROGRESS,
\* FAILED or CANCELLED, then only PENDING tasks; at most one task is
\* IN_PROGRESS; a handler is invoked only for the task that is IN_PROGRESS
C27_StrictSequencing ==
    /\ [](InSequence /\ Cardinality(InProgress) <= 1)
    /\ [][HandlerForTaskInProgress]_vars

\* the first task is COMPLETED and the handler of the second task, which is
\* IN_PROGRESS, is about to be invoked
C27_Witness ==
    /\ pc = "handler"
    /\ cur = 2
    /\ taskStatus[1] = "COMPLETED"
    /\ HandlerInvoked(1)
    /\ InProgress = {2}

\* --- C28 ---------------------------------------------------------------------

\* C28: when execute_mission has returned, the mission is COMPLETED, FAILED
\* or CANCELLED, no task is IN_PROGRESS, and True was returned exactly when
\* the mission is COMPLETED
C28_ReturnsSettled ==
    pc = "done" =>
        /\ missionStatus \in {"COMPLETED", "FAILED", "CANCELLED"}
        /\ \A i \in TaskIds : taskStatus[i] # "IN_PROGRESS"
        /\ returned = "True" <=> missionStatus = "COMPLETED"

\* --- C29 ---------------------------------------------------------------------

\* C29: in every state of the registry, whatever outputs list was declared
\* and whatever was registered after it, every output record has a
\* destination and no two records have the same destination
C29_OutputsKeyedByDestination ==
    /\ \A k \in 1..Len(_outputs) : _outputs[k].destination # VNone
    /\ \A j, k \in 1..Len(_outputs) :
           _outputs[j].destination = _outputs[k].destination => j = k

\* --- C30 ---------------------------------------------------------------------

\* the change names a target that, as written in the plan (relative to the
\* workspace), matches a configured sanctuary pattern
ProtectedTarget(change) ==
    /\ NamesFile(change)
    /\ change.file.str # << >>
    /\ is_sanctuary_path(change.file.str, sanctuary_paths)

\* C30: without dry_run, a change whose target matches a configured pattern
\* leaves the target as it was before the call and is recorded in the ledger
\* with status 'error', and every change of the plan is still processed
C30_ProtectedTargetsUntouched ==
    (wStage \in {"loop", "done"} /\ dry_run = FALSE) =>
        /\ \A k \in 1..Len(change_results) :
               ProtectedTarget(PlanChanges[k]) =>
                   /\ change_results[k].status = "error"
                   /\ SameFile(TargetOf(PlanChanges[k]))
        /\ WritesReturned => Len(change_results) = Len(PlanChanges)

====
